---- MODULE Spec2Model ----
(***************************************************************************)
(* A model of the bytefield library: struct types declared as ordered      *)
(* lists of field descriptors (StructBase.__new__), struct instances over  *)
(* a mutable byte buffer (ByteStruct), the per-instance state store        *)
(* (instance_data), the field kinds of fields.py and the proxy views of    *)
(* array_proxy.py.                                                         *)
(*                                                                         *)
(* A struct instance is a record [type, master_offset, idata]; idata is a  *)
(* sequence with one entry per declared field, the value that              *)
(* _get_instance_data returns for that field ({'size': 0} when the field   *)
(* was never touched).  The entry of an array field also carries the       *)
(* instance data of the array's element descriptor (_elem_field), whose    *)
(* only key is 'inner'.  A buffer is a sequence of bytes; a nested struct  *)
(* value aliases the buffer of its parent, so it carries no buffer of its  *)
(* own.  The element descriptor of an array field is one object per        *)
(* struct type, shared by all instances: its computed_offset is elem_off.  *)
(***************************************************************************)
EXTENDS Integers, Sequences, FiniteSets, TLC

VARIABLES
    classes,    \* struct type -> the class object StructBase.__new__ built
    typ,        \* the struct type of the instances of this run
    objs,       \* instance name -> struct instance
    data,       \* instance name -> the bytearray of that instance
    elem_off,   \* field index -> computed_offset of that array field's _elem_field
    last        \* the last operation: what was called and what it returned or raised

vars == <<classes, typ, objs, data, elem_off, last>>

-----------------------------------------------------------------------------
(* Bounds of the model.                                                    *)

MaxLen == 2         \* longest list / byte sequence assigned, largest new length
MaxBuf == 4         \* operations start only while the buffer is at most this long

-----------------------------------------------------------------------------
(* Python helpers.                                                         *)

Min(a, b) == IF a < b THEN a ELSE b
Max(a, b) == IF a > b THEN a ELSE b

\* s[i:j] of a Python sequence, 0-based, both ends clamped to the length.
Slice(s, i, j) ==
    LET lo == Min(Max(i, 0), Len(s))
        hi == Min(Max(j, 0), Len(s))
    IN  IF hi <= lo THEN <<>> ELSE SubSeq(s, lo + 1, hi)

\* s[i:] of a Python sequence.
SliceFrom(s, i) == Slice(s, i, Len(s))

\* s[i:j] = v on a bytearray: the clamped slice is replaced by v, whatever
\* the length of v.
SliceAssign(s, i, j, v) ==
    LET lo == Min(Max(i, 0), Len(s))
        hi == Max(Min(Max(j, 0), Len(s)), lo)
    IN  Slice(s, 0, lo) \o v \o SliceFrom(s, hi)

Zeros(n) == [i \in 1..n |-> 0]

RECURSIVE SeqSum(_)
SeqSum(s) == IF s = <<>> THEN 0 ELSE Head(s) + SeqSum(Tail(s))

\* math.prod / np.prod of a tuple (1 for the empty tuple).
RECURSIVE prod(_)
prod(s) == IF s = <<>> THEN 1 ELSE Head(s) * prod(Tail(s))

RECURSIVE Pow256(_)
Pow256(n) == IF n = 0 THEN 1 ELSE 256 * Pow256(n - 1)

\* struct.pack of an unsigned little-endian integer of `size` bytes.
pack(size, v) == [i \in 1..size |-> (v \div Pow256(i - 1)) % 256]

\* struct.unpack of an unsigned little-endian integer.
RECURSIVE unpack(_)
unpack(b) == IF b = <<>> THEN 0 ELSE Head(b) + 256 * unpack(Tail(b))

-----------------------------------------------------------------------------
(* Field descriptors as the struct declarations construct them.  off and   *)
(* len are <<>> for None and <<n>> for an integer; shape is <<>> for None. *)
(* off is FollowsField(j) for offset=<the j-th declared field>.            *)

Field(name, kind, off, len, shape, ekind, elen, st) ==
    [name |-> name, kind |-> kind, off |-> off, len |-> len, shape |-> shape,
     ekind |-> ekind, elen |-> elen, st |-> st]

\* offset=X, a reference to the j-th declared field of the struct.
FollowsField(j) == <<0, j>>

\* isinstance(field.offset, int)
int_offset(fd) == Len(fd.off) = 1

IntegerField(name, size, off) == Field(name, "int", off, <<size>>, <<>>, "", 0, "")
ByteArrayField(name, len, off) == Field(name, "bytes", off, len, <<>>, "", 0, "")
StructField(name, st, off) == Field(name, "struct", off, <<>>, <<>>, "", 0, st)
\* StringField(length): utf-8; VariableField()
StringField(name, len, off) == Field(name, "str", off, len, <<>>, "", 0, "")
VariableField(name, off) == Field(name, "var", off, <<>>, <<>>, "", 0, "")
\* ArrayField(shape, IntegerField, size=elen)
ArrayOfInt(name, shape, elen, off) == Field(name, "array", off, <<>>, shape, "int", elen, "")
\* ArrayField(shape, <a ByteStruct subclass>)
ArrayOfStruct(name, shape, st, off) == Field(name, "array", off, <<>>, shape, "struct", 0, st)

\* The struct types of the model, in declaration order.
FieldTable ==
  [t \in {"BS", "AS", "Elem", "ES", "Inner", "NS", "LS", "GS", "PS", "VS", "US", "FS", "OS", "RS", "FB", "TS", "CS", "WS", ""} |->
    CASE t = "BS" -> << ByteArrayField("ba", <<>>, <<>>),
                        IntegerField("tail", 2, <<>>) >>
      [] t = "AS" -> << IntegerField("head", 1, <<>>),
                        ArrayOfInt("arr", <<>>, 2, <<>>),
                        IntegerField("tail", 1, <<>>) >>
      [] t = "Elem" -> << IntegerField("e", 2, <<>>) >>
      [] t = "ES" -> << ArrayOfStruct("els", <<>>, "Elem", <<>>),
                        IntegerField("tail", 1, <<>>) >>
      [] t = "Inner" -> << IntegerField("x", 1, <<>>),
                           ByteArrayField("ba", <<>>, <<>>) >>
      [] t = "NS" -> << StructField("inner", "Inner", <<>>),
                        IntegerField("tail", 1, <<>>) >>
      [] t = "LS" -> << ByteArrayField("ba", <<>>, <<>>),
                        IntegerField("fixed", 1, <<1>>),
                        IntegerField("nxt", 1, <<>>) >>
      [] t = "GS" -> << IntegerField("head", 1, <<>>),
                        ArrayOfInt("grid", <<>>, 2, <<>>) >>
      [] t = "PS" -> << ByteArrayField("ba", <<>>, <<>>),
                        StructField("inner", "Inner", <<>>),
                        IntegerField("tail", 1, <<>>) >>
      [] t = "VS" -> << ByteArrayField("ba", <<>>, <<>>),
                        ArrayOfInt("arr", <<>>, 1, <<>>),
                        IntegerField("tail", 1, <<>>) >>
      [] t = "US" -> << ByteArrayField("ba", <<>>, <<>>),
                        VariableField("v", <<>>),
                        IntegerField("tail", 1, <<>>) >>
      [] t = "FS" -> << ByteArrayField("fb", <<1>>, <<>>),
                        ArrayOfInt("fa", <<1>>, 1, <<>>),
                        StringField("fs", <<1>>, <<>>),
                        IntegerField("tail", 1, <<>>) >>
      [] t = "OS" -> << ByteArrayField("ba", <<>>, <<>>),
                        StringField("fs", <<1>>, <<>>),
                        StringField("vs", <<>>, <<>>),
                        StructField("inner", "Inner", <<>>),
                        IntegerField("tail", 1, <<>>) >>
      [] t = "RS" -> << IntegerField("a", 1, <<>>),
                        ByteArrayField("ba", <<>>, <<>>),
                        IntegerField("c", 1, <<>>),
                        IntegerField("d", 1, FollowsField(1)),
                        IntegerField("e", 1, FollowsField(4)) >>
      [] t = "FB" -> << ByteArrayField("fb", <<2>>, <<>>),
                        IntegerField("tail", 1, <<>>) >>
      [] t = "TS" -> << ByteArrayField("da", <<>>, <<>>),
                        StructField("nested", "NS", <<>>),
                        StructField("lst", "Inner", <<>>) >>
      [] t = "CS" -> << ArrayOfInt("arr", <<2>>, 1, <<>>) >>
      [] t = "WS" -> << ArrayOfStruct("els", <<2>>, "Elem", <<>>) >>
      [] OTHER -> << >>]

Fields(t) == FieldTable[t]

NFields(t) == Len(Fields(t))
FieldIdx(t) == 1..NFields(t)

-----------------------------------------------------------------------------
(* Static attributes of a field descriptor, as the constructors set them.  *)

\* ByteField.is_instance: the field's size may differ per instance.
is_instance(fd) ==
    CASE fd.kind = "int" -> FALSE
      [] fd.kind = "bytes" -> fd.len = <<>>
      [] fd.kind = "array" -> fd.shape = <<>>
      [] fd.kind = "struct" -> TRUE
      [] fd.kind = "str" -> fd.len = <<>>
      [] fd.kind = "var" -> TRUE
      [] OTHER -> FALSE

\* ByteField.size_includes_computation: set by StructField only.
size_includes_computation(fd) == fd.kind = "struct"

\* ArrayField.shape: (0,) when declared with shape None.
DeclShape(fd) == IF fd.shape = <<>> THEN <<0>> ELSE fd.shape

RECURSIVE FieldSize(_), min_size(_), computed_offset(_, _), InstanceFieldsAfter(_, _)

\* ByteField.size, the static size each constructor passes to ByteField.__init__.
FieldSize(fd) ==
    CASE fd.kind = "int" -> fd.len[1]
      [] fd.kind = "bytes" -> IF fd.len = <<>> THEN 0 ELSE fd.len[1]
      [] fd.kind = "array" ->
            (IF fd.ekind = "struct" THEN min_size(fd.st) ELSE fd.elen) * prod(DeclShape(fd))
      [] fd.kind = "struct" -> min_size(fd.st)
      [] fd.kind = "str" -> IF fd.len = <<>> THEN 0 ELSE fd.len[1]
      [] OTHER -> 0

\* StructBase.__new__: field.computed_offset of the i-th declared field.
computed_offset(t, i) ==
    LET fd == Fields(t)[i]
    IN  IF int_offset(fd) THEN fd.off[1]
        ELSE IF i = 1 THEN 0
        ELSE computed_offset(t, i - 1)
             + (IF size_includes_computation(Fields(t)[i - 1]) THEN 0
                ELSE FieldSize(Fields(t)[i - 1]))

\* StructBase.__new__: the list instance_fields after the i-th field was
\* processed (reset by a field with an integer offset, extended by an
\* instance field).
InstanceFieldsAfter(t, i) ==
    IF i = 0 THEN <<>>
    ELSE LET fd == Fields(t)[i]
             before == IF int_offset(fd) THEN <<>> ELSE InstanceFieldsAfter(t, i - 1)
         IN  IF is_instance(fd) THEN Append(before, i) ELSE before

\* StructBase.__new__: field.instance_fields of the i-th declared field.
instance_fields(t, i) ==
    IF int_offset(Fields(t)[i]) THEN <<>> ELSE InstanceFieldsAfter(t, i - 1)

\* The end of the last field only.
end_of_last_field(t) ==
    IF NFields(t) = 0 THEN 0
    ELSE computed_offset(t, NFields(t)) + FieldSize(Fields(t)[NFields(t)])

\* StructBase.__new__: the min_size attribute of a struct type.
min_size(t) ==
    LET n == NFields(t)
    IN  IF n = 0 THEN 0
        ELSE LET rest == instance_fields(t, n)
                 extra == [k \in 1..Len(rest) |->
                              IF size_includes_computation(Fields(t)[rest[k]])
                              THEN FieldSize(Fields(t)[rest[k]]) ELSE 0]
             IN  computed_offset(t, n) + FieldSize(Fields(t)[n]) + SeqSum(extra)

\* StructBase.__new__: the last_field attribute (0: the type has no field).
last_field(t) == NFields(t)

-----------------------------------------------------------------------------
(* The class objects.  StructBase.__new__ runs once per struct type, when  *)
(* the type is declared: it stores computed_offset and instance_fields on  *)
(* every field descriptor and min_size and last_field on the class.        *)

AllTypes == {"BS", "AS", "Elem", "ES", "Inner", "NS", "LS", "GS", "PS", "VS", "US", "FS", "OS", "RS", "FB", "TS", "CS", "WS"}

\* The i-th field descriptor of type t after StructBase.__new__.
Descriptor(t, i) ==
    Fields(t)[i] @@ [size |-> FieldSize(Fields(t)[i]),
                     is_instance |-> is_instance(Fields(t)[i]),
                     computed_offset |-> computed_offset(t, i),
                     instance_fields |-> instance_fields(t, i)]

\* The class StructBase.__new__ returns for type t.
StructBase_new(t) ==
    [fields |-> [i \in FieldIdx(t) |-> Descriptor(t, i)],
     min_size |-> min_size(t),
     last_field |-> last_field(t)]

ClassTable == [t \in AllTypes |-> StructBase_new(t)]

-----------------------------------------------------------------------------
(* Struct instances and the instance state store.                          *)

NoObj == [type |-> "", master_offset |-> 0, idata |-> <<>>]

\* _get_instance_data's default entry {'size': 0}: no 'shape', no 'inner'.
\* einner is the 'inner' entry of an array field's element descriptor.
\* child is the 'child' entry of a VariableField: NoChild (None or absent)
\* or the descriptor the caller passed to resize, a fixed-size IntegerField
\* or StringField that belongs to no struct type.
NoChild == [kind |-> "", size |-> 0, computed_offset |-> 0]
NoData == [size |-> 0, has_shape |-> FALSE, shape |-> <<>>, inner |-> NoObj, einner |-> NoObj,
           child |-> NoChild]

\* The descriptor of the i-th field of the struct type of instance o.
field(o, i) == classes[o.type].fields[i]

\* ByteStruct._get_instance_data
get_instance_data(o, i) == o.idata[i]

SetData(o, i, d) == [o EXCEPT !.idata[i] = d]

RECURSIVE get_size(_, _), size(_)

\* StructField.get_size of an array's element descriptor; the static size of
\* a scalar element (SimpleField is never an instance field).
elem_get_size(o, i) ==
    IF field(o, i).ekind = "struct"
    THEN IF get_instance_data(o, i).einner = NoObj THEN classes[field(o, i).st].min_size
         ELSE size(get_instance_data(o, i).einner)
    ELSE field(o, i).elen

\* _elem_field.size, the static size of the element descriptor fd.
elem_size(fd) == IF fd.ekind = "struct" THEN classes[fd.st].min_size ELSE fd.elen

\* The shape ArrayField.get_size uses.
CurShape(o, i) ==
    IF field(o, i).is_instance /\ get_instance_data(o, i).has_shape
    THEN get_instance_data(o, i).shape
    ELSE DeclShape(field(o, i))

\* A StructField whose size is always the static size of its struct type.
get_size_static_struct(o, i) ==
    CASE field(o, i).kind = "array" -> elem_get_size(o, i) * prod(CurShape(o, i))
      [] field(o, i).kind = "struct" -> field(o, i).size
      [] OTHER -> IF field(o, i).is_instance THEN get_instance_data(o, i).size
                  ELSE field(o, i).size

\* ByteField.get_size and its overrides in ArrayField, StructField and
\* VariableField.
get_size(o, i) ==
    CASE field(o, i).kind = "array" -> elem_get_size(o, i) * prod(CurShape(o, i))
      [] field(o, i).kind = "struct" ->
            IF get_instance_data(o, i).inner = NoObj THEN field(o, i).size
            ELSE size(get_instance_data(o, i).inner)
      [] field(o, i).kind = "var" ->
            IF get_instance_data(o, i).child = NoChild THEN 0
            ELSE get_instance_data(o, i).child.size
      [] OTHER -> IF field(o, i).is_instance THEN get_instance_data(o, i).size
                  ELSE field(o, i).size

\* An offset computed once from the static sizes of the instance fields.
calc_field_offset_static(o, i) ==
    field(o, i).computed_offset
    + SeqSum([k \in 1..Len(field(o, i).instance_fields) |->
                 field(o, field(o, i).instance_fields[k]).size])

\* ByteStruct.calc_field_offset
calc_field_offset(o, i) ==
    field(o, i).computed_offset
    + SeqSum([k \in 1..Len(field(o, i).instance_fields) |->
                 get_size(o, field(o, i).instance_fields[k])])

\* ByteStruct.size
size(o) ==
    IF classes[o.type].last_field = 0 THEN 0
    ELSE calc_field_offset(o, classes[o.type].last_field)
         + get_size(o, classes[o.type].last_field)

\* ByteStruct.calc_offset
calc_offset(o, i) == o.master_offset + calc_field_offset(o, i)

\* calc_offset of an array field's element descriptor: its computed_offset
\* is eo[key] and its instance_fields are empty.
elem_calc_offset(o, eo, key) == o.master_offset + eo[key]

-----------------------------------------------------------------------------
(* Index arithmetic of array_proxy.py.                                     *)

\* _to_absolute_indices: negative components wrap once; the result is the
\* empty tuple (None in the source) when a component is out of range.
RECURSIVE to_absolute_indices(_, _)
to_absolute_indices(shape, index) ==
    IF index = <<>> THEN <<>>
    ELSE LET ind == Head(index)
             abs == IF ind < 0 THEN Head(shape) + ind ELSE ind
         IN  IF abs < 0 \/ abs > Head(shape) - 1 THEN <<>>
             ELSE LET rest == to_absolute_indices(Tail(shape), Tail(index))
                  IN  IF Len(index) > 1 /\ rest = <<>> THEN <<>> ELSE <<abs>> \o rest

\* A flat index whose strides include the component's own dimension.
get_array_index_own_dim(shape, index) ==
    SeqSum([i \in 1..(Len(index) - 1) |->
               index[i] * prod(SubSeq(shape, i, Len(shape)))])
    + index[Len(index)]

\* _get_array_index: the row-major flat index of an absolute index tuple.
get_array_index(shape, index) ==
    SeqSum([i \in 1..(Len(index) - 1) |->
               index[i] * prod(SubSeq(shape, i + 1, Len(shape)))])
    + index[Len(index)]

\* np.ndindex(shape): the k-th index tuple (k from 0) in iteration order.
RECURSIVE ndindex(_, _)
ndindex(shape, k) ==
    IF shape = <<>> THEN <<>>
    ELSE <<k \div prod(Tail(shape))>> \o ndindex(Tail(shape), k % prod(Tail(shape)))

-----------------------------------------------------------------------------
(* Operations.  Each takes the instance o, its buffer d and the shared     *)
(* element offsets eo, and returns them as changed, with the value         *)
(* returned (val) or the exception raised (err, "" when none).  What an    *)
(* operation changed before it raised stays changed, as in the source.     *)

W(o, d, eo, err, val) == [o |-> o, d |-> d, eo |-> eo, err |-> err, val |-> val]

\* A resize at the start of the field: growth left-pads the field and
\* shrinking removes its first bytes.
resize_data_at_start(d, offset, old_size, new_size) ==
    IF old_size > new_size
    THEN Slice(d, 0, offset) \o SliceFrom(d, offset + (old_size - new_size))
    ELSE IF old_size < new_size
    THEN Slice(d, 0, offset) \o (Zeros(new_size - old_size) \o SliceFrom(d, offset))
    ELSE d

\* ByteStruct._resize_data, given the offset of the resizing field and its
\* size before and after the resize.
resize_data(d, offset, old_size, new_size) ==
    IF old_size > new_size
    THEN Slice(d, 0, offset)
         \o (Slice(d, offset, offset + new_size) \o SliceFrom(d, offset + old_size))
    ELSE IF old_size < new_size
    THEN Slice(d, 0, offset + old_size)
         \o (Zeros(new_size - old_size) \o SliceFrom(d, offset + old_size))
    ELSE d

\* ByteArrayField.resize, StringField.resize, ArrayField.resize and
\* VariableField.resize (ByteField.resize, a no-op, for the other kinds).
\* A length n is passed as the shape <<n>>; the new size of a VariableField
\* is the child descriptor.
field_resize(o, i, shape) ==
    CASE field(o, i).kind \in {"bytes", "str"} ->
            SetData(o, i, [get_instance_data(o, i) EXCEPT !.size = shape[1]])
      [] field(o, i).kind = "var" ->
            SetData(o, i, [get_instance_data(o, i) EXCEPT
                              !.child = [shape EXCEPT
                                            !.computed_offset = field(o, i).computed_offset],
                              !.size = shape.size])
      [] field(o, i).kind = "array" ->
            SetData(o, i, [get_instance_data(o, i) EXCEPT
                              !.has_shape = TRUE, !.shape = shape,
                              !.size = elem_get_size(o, i) * prod(shape)])
      [] OTHER -> o

\* A resize that accepts every field.
resize_any_field(o, d, eo, i, shape, resize_bytes) ==
    LET physical(o1) ==
            W(o1, resize_data(d, calc_offset(o1, i), get_size(o, i), get_size(o1, i)),
              eo, "", <<>>)
    IN  IF resize_bytes THEN physical(field_resize(o, i, shape))
        ELSE W(field_resize(o, i, shape), d, eo, "", <<>>)

\* A resize that ignores resize_bytes and always resizes the buffer.
resize_always_physical(o, d, eo, i, shape, resize_bytes) ==
    IF ~field(o, i).is_instance THEN W(o, d, eo, "Exception", <<>>)
    ELSE W(field_resize(o, i, shape),
           resize_data(d, calc_offset(o, i), get_size(o, i),
                       get_size(field_resize(o, i, shape), i)),
           eo, "", <<>>)

\* ByteStruct.resize
resize(o, d, eo, i, shape, resize_bytes) ==
    LET physical(o1) ==
            W(o1, resize_data(d, calc_offset(o1, i), get_size(o, i), get_size(o1, i)),
              eo, "", <<>>)
    IN  IF ~field(o, i).is_instance THEN W(o, d, eo, "Exception", <<>>)
        ELSE IF resize_bytes THEN physical(field_resize(o, i, shape))
        ELSE W(field_resize(o, i, shape), d, eo, "", <<>>)

\* ByteField._resize_with_data
resize_with_data(o, d, i, shape) ==
    LET resized(o1) ==
            IF get_size(o, i) # get_size(o1, i)
            THEN [o |-> o1,
                  d |-> resize_data(d, calc_offset(o1, i), get_size(o, i), get_size(o1, i))]
            ELSE [o |-> o1, d |-> d]
    IN  resized(field_resize(o, i, shape))

\* A check that also rejects a buffer the struct fills exactly.
check_overflow_full(o, d, eo) ==
    IF size(o) >= Len(d) THEN W(o, d, eo, "OverflowError", <<>>)
    ELSE W(o, d, eo, "", <<>>)

\* ByteStruct.check_overflow
check_overflow(o, d, eo) ==
    IF size(o) > Len(d) THEN W(o, d, eo, "OverflowError", <<>>)
    ELSE W(o, d, eo, "", <<>>)

\* SimpleField._getvalue at the absolute offset of the field.
simple_getvalue(d, offset, sz) ==
    IF offset + sz > Len(d) THEN [err |-> "IndexError", val |-> <<>>]
    ELSE [err |-> "", val |-> <<unpack(Slice(d, offset, offset + sz))>>]

\* SimpleField._setvalue at the absolute offset of the field.
simple_setvalue(d, offset, sz, value) ==
    IF offset + sz > Len(d) THEN [err |-> "IndexError", d |-> d]
    ELSE [err |-> "", d |-> SliceAssign(d, offset, offset + sz, pack(sz, value))]

\* ByteArrayField._setvalue
bytes_setvalue(o, d, eo, i, value) ==
    LET write(r, offset) ==
            IF offset + get_instance_data(r.o, i).size > Len(r.d)
            THEN W(r.o, r.d, eo, "IndexError", <<>>)
            ELSE W(r.o, SliceAssign(r.d, offset, offset + field(o, i).size, value),
                   eo, "", <<>>)
        checked(r) == write(r, calc_offset(r.o, i))
    IN  IF Len(value) # get_instance_data(o, i).size
        THEN checked(resize_with_data(o, d, i, <<Len(value)>>))
        ELSE IF Len(value) # field(o, i).size THEN W(o, d, eo, "AssertionError", <<>>)
        ELSE checked([o |-> o, d |-> d])

\* ByteArrayFieldProxy._validate_offset and to_bytearray
to_bytearray(o, d, i) ==
    IF calc_offset(o, i) + get_instance_data(o, i).size > Len(d)
    THEN [err |-> "IndexError", val |-> <<>>]
    ELSE [err |-> "", val |-> Slice(d, calc_offset(o, i),
                                    calc_offset(o, i) + get_instance_data(o, i).size)]

\* ByteArrayFieldProxy.__len__
bytes_len(o, i) == get_instance_data(o, i).size

\* ByteArrayFieldProxy.__getitem__: _validate_offset, then _validate_index.
bytes_getitem(o, d, i, index) ==
    LET at(abs) == IF abs = <<>> THEN [err |-> "IndexError", val |-> <<>>]
                   ELSE [err |-> "", val |-> <<d[calc_offset(o, i) + abs[1] + 1]>>]
    IN  IF calc_offset(o, i) + get_instance_data(o, i).size > Len(d)
        THEN [err |-> "IndexError", val |-> <<>>]
        ELSE at(to_absolute_indices(<<get_instance_data(o, i).size>>, <<index>>))

\* ByteArrayFieldProxy.__setitem__: _validate_offset, then _validate_index.
bytes_setitem(o, d, i, index, value) ==
    LET at(abs) == IF abs = <<>> THEN [err |-> "IndexError", d |-> d]
                   ELSE [err |-> "",
                         d |-> [d EXCEPT ![calc_offset(o, i) + abs[1] + 1] = value]]
    IN  IF calc_offset(o, i) + get_instance_data(o, i).size > Len(d)
        THEN [err |-> "IndexError", d |-> d]
        ELSE at(to_absolute_indices(<<get_instance_data(o, i).size>>, <<index>>))

-----------------------------------------------------------------------------
(* String fields.  A str is a sequence of code points below 2048, which    *)
(* utf-8 encodes in one or two bytes.                                      *)

\* str.encode('utf-8')
RECURSIVE encode(_)
encode(s) ==
    IF s = <<>> THEN <<>>
    ELSE (IF Head(s) < 128 THEN <<Head(s)>>
          ELSE <<192 + (Head(s) \div 64), 128 + (Head(s) % 64)>>) \o encode(Tail(s))

\* bytes.decode('utf-8'): UnicodeDecodeError for a continuation byte with
\* no lead byte, a lead byte with no continuation byte, an overlong form.
RECURSIVE decode(_)
decode(b) ==
    LET more(c, r) == IF r.err # "" THEN r ELSE [err |-> "", val |-> <<c>> \o r.val]
    IN  IF b = <<>> THEN [err |-> "", val |-> <<>>]
        ELSE IF Head(b) < 128 THEN more(Head(b), decode(Tail(b)))
        ELSE IF /\ Head(b) \in 194..223 /\ Len(b) >= 2 /\ b[2] \in 128..191
        THEN more((Head(b) - 192) * 64 + (b[2] - 128), decode(Tail(Tail(b))))
        ELSE [err |-> "UnicodeDecodeError", val |-> <<>>]

\* struct.pack(f'{n}s', b): b cut to n bytes or padded with zero bytes.
pack_s(n, b) == IF Len(b) >= n THEN SubSeq(b, 1, n) ELSE b \o Zeros(n - Len(b))

\* StringField._getvalue at the absolute offset of the field; val is <<s>>.
string_getvalue(d, offset, sz) ==
    LET read(r) == [err |-> r.err, val |-> IF r.err = "" THEN <<r.val>> ELSE <<>>]
    IN  IF offset + sz > Len(d) THEN [err |-> "IndexError", val |-> <<>>]
        ELSE read(decode(Slice(d, offset, offset + sz)))

\* StringField._setvalue of a field with a constant length.
fixed_string_setvalue(d, offset, sz, value) ==
    IF Len(value) # sz THEN [err |-> "AssertionError", d |-> d]
    ELSE [err |-> "", d |-> SliceAssign(d, offset, offset + sz, pack_s(sz, encode(value)))]

\* StringField._setvalue
string_setvalue(o, d, eo, i, value) ==
    LET fixed(r) == W(o, r.d, eo, r.err, <<>>)
        write(r, offset) ==
            W(r.o, SliceAssign(r.d, offset, offset + get_instance_data(r.o, i).size,
                               pack_s(get_instance_data(r.o, i).size, encode(value))),
              eo, "", <<>>)
    IN  IF ~field(o, i).is_instance
        THEN fixed(fixed_string_setvalue(d, calc_offset(o, i), field(o, i).size, value))
        ELSE IF calc_offset(o, i) + get_instance_data(o, i).size > Len(d)
        THEN W(o, d, eo, "IndexError", <<>>)
        ELSE IF Len(value) # get_instance_data(o, i).size
        THEN write(resize_with_data(o, d, i, <<Len(value)>>), calc_offset(o, i))
        ELSE write([o |-> o, d |-> d], calc_offset(o, i))

-----------------------------------------------------------------------------
(* Variable fields.                                                        *)

\* The descriptors a caller passes to resize: IntegerField(size=n) and
\* StringField(length=n), whose computed_offset is 0 when constructed.
ChildInteger(n) == [kind |-> "int", size |-> n, computed_offset |-> 0]
ChildString(n) == [kind |-> "str", size |-> n, computed_offset |-> 0]

\* ByteStruct.calc_offset of a child descriptor: its computed_offset is
\* the one VariableField.resize stored and its instance_fields are empty.
child_calc_offset(o, c) == o.master_offset + c.computed_offset

\* A getter that raises while no child was assigned.
variable_getvalue_raising(o, d, i) ==
    LET at(c) == IF c.kind = "str" THEN string_getvalue(d, child_calc_offset(o, c), c.size)
                 ELSE simple_getvalue(d, child_calc_offset(o, c), c.size)
    IN  IF get_instance_data(o, i).child = NoChild THEN [err |-> "Exception", val |-> <<>>]
        ELSE at(get_instance_data(o, i).child)

\* VariableField._getvalue: val is <<>> for None.
variable_getvalue(o, d, i) ==
    LET at(c) == IF c.kind = "str" THEN string_getvalue(d, child_calc_offset(o, c), c.size)
                 ELSE simple_getvalue(d, child_calc_offset(o, c), c.size)
    IN  IF get_instance_data(o, i).child = NoChild THEN [err |-> "", val |-> <<>>]
        ELSE at(get_instance_data(o, i).child)

\* VariableField._setvalue; value is <<v>>.
variable_setvalue(o, d, i, value) ==
    LET at(c) == IF c.kind = "str"
                 THEN fixed_string_setvalue(d, child_calc_offset(o, c), c.size, value[1])
                 ELSE simple_setvalue(d, child_calc_offset(o, c), c.size, value[1])
    IN  IF get_instance_data(o, i).child = NoChild THEN [err |-> "Exception", d |-> d]
        ELSE at(get_instance_data(o, i).child)

-----------------------------------------------------------------------------
(* Struct construction and nested struct values.                           *)

\* ByteStruct.__init__(data, master_offset) of type t: an empty instance
\* state store; then every StructField (instance_with_parent) is read once,
\* in declaration order, which creates its inner struct.
RECURSIVE NewStruct(_, _), InitInner(_, _)
InitInner(o, i) ==
    IF i > Len(classes[o.type].fields) THEN o
    ELSE IF field(o, i).kind = "struct"
    THEN InitInner(SetData(o, i, [get_instance_data(o, i) EXCEPT
                       !.inner = NewStruct(field(o, i).st, calc_offset(o, i))]), i + 1)
    ELSE InitInner(o, i + 1)

NewStruct(t, master_offset) ==
    InitInner([type |-> t, master_offset |-> master_offset,
               idata |-> [i \in DOMAIN classes[t].fields |-> NoData]], 1)

\* A getter that returns the cached inner struct as it is.
struct_getvalue_cached(o, i) ==
    IF get_instance_data(o, i).inner = NoObj
    THEN SetData(o, i, [get_instance_data(o, i) EXCEPT
                           !.inner = NewStruct(field(o, i).st, calc_offset(o, i))])
    ELSE o

\* StructField._getvalue: the inner struct is created on first use and
\* re-bound to the parent's buffer and current offset on every later use.
struct_getvalue(o, i) ==
    IF get_instance_data(o, i).inner = NoObj
    THEN SetData(o, i, [get_instance_data(o, i) EXCEPT
                           !.inner = NewStruct(field(o, i).st, calc_offset(o, i))])
    ELSE SetData(o, i, [get_instance_data(o, i) EXCEPT
                           !.inner.master_offset = calc_offset(o, i)])

\* A struct value built by the caller, T(name=value, ...): the instance and
\* its own buffer.
StructValue(t, bytes) == [o |-> NewStruct(t, 0), d |-> bytes]

\* StructField._setvalue; value is a struct value with its own buffer.  o1
\* is the instance once data['inner'] = value.
struct_setvalue(o, d, eo, i, value) ==
    LET old_size == IF get_instance_data(o, i).inner # NoObj
                    THEN size(get_instance_data(o, i).inner) ELSE 0
        stored(o1, offset) ==
            W(SetData(o1, i, [get_instance_data(o1, i) EXCEPT !.inner.master_offset = offset]),
              SliceAssign(IF size(value.o) # old_size
                          THEN resize_data(d, offset, old_size, get_size(o1, i))
                          ELSE d,
                          offset, offset + size(value.o), value.d),
              eo, "", <<>>)
    IN  stored(SetData(o, i, [get_instance_data(o, i) EXCEPT !.inner = value.o]),
               calc_offset(o, i))

-----------------------------------------------------------------------------
(* Array fields and their proxy view.                                      *)

\* ArrayFieldProxy.shape; the entry it stores when none is present is the
\* value ArrayField.get_size uses anyway.
proxy_shape(o, i) ==
    IF get_instance_data(o, i).has_shape /\ get_instance_data(o, i).shape # <<>>
    THEN get_instance_data(o, i).shape
    ELSE DeclShape(field(o, i))

\* The store of the lazily created 'shape' entry (ArrayFieldProxy.shape,
\* ArrayField._setvalue).
with_shape(o, i) ==
    IF get_instance_data(o, i).has_shape /\ get_instance_data(o, i).shape # <<>> THEN o
    ELSE SetData(o, i, [get_instance_data(o, i) EXCEPT
                           !.has_shape = TRUE, !.shape = DeclShape(field(o, i))])

\* The assignment to _elem_field.computed_offset that precedes every
\* element access.
set_elem_offset(o, eo, i, arr_offset, shape, index) ==
    [eo EXCEPT ![<<o.type, i>>] =
        arr_offset + get_array_index(shape, index) * elem_size(field(o, i))]

\* StructField.reset on the element descriptor.
elem_reset(o, i) == SetData(o, i, [get_instance_data(o, i) EXCEPT !.einner = NoObj])

\* StructField._setvalue on the element descriptor of array field i; value
\* is a StructValue.  o1 is the instance once data['inner'] = value.
elem_struct_setvalue(o, d, eo, i, value) ==
    LET old_size == IF get_instance_data(o, i).einner # NoObj
                    THEN size(get_instance_data(o, i).einner) ELSE 0
        stored(o1, offset) ==
            W(SetData(o1, i, [get_instance_data(o1, i) EXCEPT !.einner.master_offset = offset]),
              SliceAssign(IF size(value.o) # old_size
                          THEN resize_data(d, offset, old_size, elem_get_size(o1, i))
                          ELSE d,
                          offset, offset + size(value.o), value.d),
              eo, "", <<>>)
    IN  stored(SetData(o, i, [get_instance_data(o, i) EXCEPT !.einner = value.o]),
               elem_calc_offset(o, eo, <<o.type, i>>))

\* SimpleField._setvalue on the element descriptor; value is <<v>>.
elem_simple_setvalue(o, d, eo, i, value) ==
    LET written(r) == W(o, r.d, eo, r.err, <<>>)
    IN  written(simple_setvalue(d, elem_calc_offset(o, eo, <<o.type, i>>),
                                field(o, i).elen, value[1]))

\* _elem_field._setvalue(byte_struct, value)
elem_setvalue(o, d, eo, i, value) ==
    IF field(o, i).ekind = "struct" THEN elem_struct_setvalue(o, d, eo, i, value)
    ELSE elem_simple_setvalue(o, d, eo, i, value)

\* The fields of a struct value as read through it: every scalar field,
\* in declaration order, <<>> for a field that cannot be read.
ReadScalars(o, d) ==
    [k \in DOMAIN classes[o.type].fields |->
        IF field(o, k).kind = "int"
        THEN simple_getvalue(d, calc_offset(o, k), field(o, k).size).val
        ELSE <<>>]

\* _elem_field._getvalue(byte_struct): the scalar read, or the struct view
\* created at the element's offset (val holds what its fields read).
elem_getvalue(o, d, eo, i) ==
    LET view(e) == W(SetData(o, i, [get_instance_data(o, i) EXCEPT !.einner = e]), d, eo, "",
                     ReadScalars(e, d))
        read(r) == W(o, d, eo, r.err, r.val)
    IN  IF field(o, i).ekind = "struct"
        THEN IF get_instance_data(o, i).einner = NoObj
             THEN view(NewStruct(field(o, i).st, elem_calc_offset(o, eo, <<o.type, i>>)))
             ELSE view([get_instance_data(o, i).einner EXCEPT
                           !.master_offset = elem_calc_offset(o, eo, <<o.type, i>>)])
        ELSE read(simple_getvalue(d, elem_calc_offset(o, eo, <<o.type, i>>), field(o, i).elen))

\* ArrayFieldProxy._validate_index and __getitem__
array_getitem(o, d, eo, i, index) ==
    LET at(o1, abs) ==
            IF abs = <<>> THEN W(o1, d, eo, "IndexError", <<>>)
            ELSE elem_getvalue(IF field(o, i).ekind = "struct" THEN elem_reset(o1, i) ELSE o1,
                               d,
                               set_elem_offset(o1, eo, i, calc_field_offset(o1, i),
                                               proxy_shape(o1, i), abs),
                               i)
    IN  at(with_shape(o, i), to_absolute_indices(proxy_shape(o, i), index))

\* ArrayFieldProxy.__setitem__
array_setitem(o, d, eo, i, index, value) ==
    LET at(o1, abs) ==
            IF abs = <<>> THEN W(o1, d, eo, "IndexError", <<>>)
            ELSE elem_setvalue(o1, d,
                               set_elem_offset(o1, eo, i, calc_field_offset(o1, i),
                                               proxy_shape(o1, i), abs),
                               i, value)
    IN  at(with_shape(o, i), to_absolute_indices(proxy_shape(o, i), index))

\* ArrayFieldProxy.to_numpy: elements k, k+1, ... of the array; acc holds
\* the elements read so far.
RECURSIVE to_numpy_from(_, _, _, _, _, _, _)
to_numpy_from(o, d, eo, i, arr_offset, k, acc) ==
    LET next(r) == IF r.err # "" THEN W(r.o, r.d, r.eo, r.err, <<>>)
                   ELSE to_numpy_from(r.o, r.d, r.eo, i, arr_offset, k + 1,
                                      Append(acc, r.val))
    IN  IF k >= prod(proxy_shape(o, i)) THEN W(o, d, eo, "", acc)
        ELSE next(elem_getvalue(
                      IF field(o, i).ekind = "struct" THEN elem_reset(o, i) ELSE o,
                      d,
                      set_elem_offset(o, eo, i, arr_offset, proxy_shape(o, i),
                                      ndindex(proxy_shape(o, i), k)),
                      i))

to_numpy(o, d, eo, i) ==
    to_numpy_from(with_shape(o, i), d, eo, i, calc_field_offset(o, i), 0, <<>>)

\* ArrayField._setvalue, the loop over np.ndindex(data['shape']) from the
\* k-th index on; values is the assigned list.
RECURSIVE array_set_from(_, _, _, _, _, _, _, _)
array_set_from(o, d, eo, i, arr_offset, shape, values, k) ==
    LET next(r) == IF r.err # "" THEN r
                   ELSE array_set_from(r.o, r.d, r.eo, i, arr_offset, shape, values, k + 1)
    IN  IF k >= prod(shape) THEN W(o, d, eo, "", <<>>)
        ELSE next(elem_setvalue(o, d,
                                set_elem_offset(o, eo, i, arr_offset, shape, ndindex(shape, k)),
                                i, values[k + 1]))

\* ArrayField._setvalue for a list of elements (a one-dimensional value).
array_setvalue(o, d, eo, i, values) ==
    LET fill(r) == array_set_from(r.o, r.d, eo, i, calc_field_offset(r.o, i),
                                  get_instance_data(r.o, i).shape, values, 0)
        sized(o1) == IF <<Len(values)>> # get_instance_data(o1, i).shape
                     THEN fill(resize_with_data(o1, d, i, <<Len(values)>>))
                     ELSE fill([o |-> o1, d |-> d])
    IN  sized(IF get_instance_data(o, i).has_shape THEN o
              ELSE SetData(o, i, [get_instance_data(o, i) EXCEPT
                                     !.has_shape = TRUE, !.shape = DeclShape(field(o, i))]))

\* ArrayField._setvalue for a numpy array: its shape is first compared with
\* the declared shape.
array_setvalue_ndarray(o, d, eo, i, values) ==
    IF <<Len(values)>> # DeclShape(field(o, i)) THEN W(o, d, eo, "AssertionError", <<>>)
    ELSE array_setvalue(o, d, eo, i, values)

-----------------------------------------------------------------------------
(* The state machine: one or two instances of one struct type, each over   *)
(* its own bytearray, driven by the calls of a client.                     *)

\* The struct types a run instantiates.
TopTypes == {"BS", "AS", "ES", "NS", "LS"}

ArrayKeys == {k \in AllTypes \X (1..3) :
                 k[2] <= NFields(k[1]) /\ Fields(k[1])[k[2]].kind = "array"}

\* The fields of struct type t, and those of one kind.
FieldsOf(t) == DOMAIN classes[t].fields
KindIdx(t, kind) == {i \in FieldsOf(t) : classes[t].fields[i].kind = kind}

Lengths == 0..MaxLen
\* The scalar values a client writes.
Vals == {1, 2}
ByteSeqs == UNION {[1..n -> Vals] : n \in Lengths}
Indices == {<<k>> : k \in (0 - MaxLen - 1)..MaxLen}

\* The lists a client assigns to array field i of type t.
ElemValues(t, i) ==
    IF classes[t].fields[i].ekind = "struct"
    THEN {StructValue(classes[t].fields[i].st,
                      pack(classes[classes[t].fields[i].st].min_size, v)) : v \in Vals}
    ELSE {<<v>> : v \in Vals}
Lists(t, i) == UNION {[1..n -> ElemValues(t, i)] : n \in Lengths}

\* What last records of a call: the operation, the instance, the StructField
\* the nested value was read from (0: none), the field, resize_bytes and the
\* exception raised ("" when the call returned).
NoCall == [op |-> "init", inst |-> "", via |-> 0, f |-> 0, resize_bytes |-> FALSE, err |-> ""]

Call(op, inst, via, f, rb) ==
    [op |-> op, inst |-> inst, via |-> via, f |-> f, resize_bytes |-> rb, err |-> ""]

\* T(): no data is given, the buffer is bytearray(min_size).
InitOf(insts) ==
    /\ classes = ClassTable
    /\ typ \in TopTypes
    /\ objs = [n \in insts |-> NewStruct(typ, 0)]
    /\ data = [n \in insts |-> Zeros(classes[typ].min_size)]
    /\ elem_off = [k \in ArrayKeys |-> 0]
    /\ last = NoCall

Init == InitOf({"a"})

Ready(n) == n \in DOMAIN objs /\ Len(data[n]) <= MaxBuf

\* A store of instance state that belongs to the field descriptor, and so
\* to every instance of the struct type.
Commit_shared_store(n, w, call) ==
    /\ objs' = [m \in DOMAIN objs |->
                   IF m = n THEN w.o ELSE [objs[m] EXCEPT !.idata = w.o.idata]]
    /\ data' = [data EXCEPT ![n] = w.d]
    /\ elem_off' = w.eo
    /\ last' = [call EXCEPT !.err = w.err]
    /\ UNCHANGED <<classes, typ>>

\* The state after a call on instance n returned or raised w: the instance
\* state store (self.instance_data) and the buffer are the instance's own,
\* the element descriptor's computed_offset is the class's.
Commit(n, w, call) ==
    /\ objs' = [objs EXCEPT ![n] = w.o]
    /\ data' = [data EXCEPT ![n] = w.d]
    /\ elem_off' = w.eo
    /\ last' = [call EXCEPT !.err = w.err]
    /\ UNCHANGED <<classes, typ>>

\* n.resize(T.f_field, length, resize_bytes)
Resize(n, i, len, rb) ==
    /\ Ready(n)
    /\ Commit(n, resize(objs[n], data[n], elem_off, i, <<len>>, rb),
              Call("resize", n, 0, i, rb))

\* n.check_overflow()
CheckOverflow(n) ==
    /\ Ready(n)
    /\ Commit(n, check_overflow(objs[n], data[n], elem_off),
              Call("check_overflow", n, 0, 0, FALSE))

\* n.f = v for an IntegerField
SetInt(n, i, v) ==
    /\ Ready(n)
    /\ LET written(r) == W(objs[n], r.d, elem_off, r.err, <<>>)
       IN  Commit(n, written(simple_setvalue(data[n], calc_offset(objs[n], i),
                                             field(objs[n], i).size, v)),
                  Call("set_int", n, 0, i, FALSE))

\* n.f = v for a ByteArrayField
SetBytes(n, i, v) ==
    /\ Ready(n)
    /\ Commit(n, bytes_setvalue(objs[n], data[n], elem_off, i, v),
              Call("set_bytes", n, 0, i, FALSE))

\* n.f = [v, ...] for an ArrayField
SetArray(n, i, values) ==
    /\ Ready(n)
    /\ Commit(n, array_setvalue(objs[n], data[n], elem_off, i, values),
              Call("set_array", n, 0, i, FALSE))

\* n.f[index] = v
SetItem(n, i, index, value) ==
    /\ Ready(n)
    /\ Commit(n, array_setitem(objs[n], data[n], elem_off, i, index, value),
              Call("setitem", n, 0, i, FALSE))

\* n.f[index]
GetItem(n, i, index) ==
    /\ Ready(n)
    /\ Commit(n, array_getitem(objs[n], data[n], elem_off, i, index),
              Call("getitem", n, 0, i, FALSE))

\* n.f.to_numpy()
ToNumpy(n, i) ==
    /\ Ready(n)
    /\ Commit(n, to_numpy(objs[n], data[n], elem_off, i),
              Call("to_numpy", n, 0, i, FALSE))

\* The state after a call on the nested value n.<field s> returned or
\* raised w: the nested value is the parent's cached inner struct.
CommitNested(n, s, w, call) ==
    /\ objs' = [objs EXCEPT ![n] =
                   SetData(struct_getvalue(objs[n], s), s,
                           [get_instance_data(objs[n], s) EXCEPT !.inner = w.o])]
    /\ data' = [data EXCEPT ![n] = w.d]
    /\ elem_off' = w.eo
    /\ last' = [call EXCEPT !.err = w.err]
    /\ UNCHANGED <<classes, typ>>

\* The nested value the parent returns for its StructField s.
Nested(n, s) == get_instance_data(struct_getvalue(objs[n], s), s).inner

\* n.s.resize(S.f_field, length, resize_bytes), through the nested value
NestedResize(n, s, i, len, rb) ==
    /\ Ready(n)
    /\ CommitNested(n, s, resize(Nested(n, s), data[n], elem_off, i, <<len>>, rb),
                    Call("resize", n, s, i, rb))

\* n.s.f = v for an IntegerField of the nested struct
NestedSetInt(n, s, i, v) ==
    /\ Ready(n)
    /\ LET written(o, r) == W(o, r.d, elem_off, r.err, <<>>)
           set(o) == written(o, simple_setvalue(data[n], calc_offset(o, i), field(o, i).size, v))
       IN  CommitNested(n, s, set(Nested(n, s)), Call("set_int", n, s, i, FALSE))

\* n.s.f = v for a ByteArrayField of the nested struct
NestedSetBytes(n, s, i, v) ==
    /\ Ready(n)
    /\ CommitNested(n, s, bytes_setvalue(Nested(n, s), data[n], elem_off, i, v),
                    Call("set_bytes", n, s, i, FALSE))

Next ==
    \/ \E n \in DOMAIN objs, i \in FieldsOf(typ), len \in Lengths, rb \in BOOLEAN :
          Resize(n, i, len, rb)
    \/ \E n \in DOMAIN objs : CheckOverflow(n)
    \/ \E n \in DOMAIN objs, i \in KindIdx(typ, "int"), v \in Vals : SetInt(n, i, v)
    \/ \E n \in DOMAIN objs, i \in KindIdx(typ, "bytes"), v \in ByteSeqs : SetBytes(n, i, v)
    \/ \E n \in DOMAIN objs, i \in KindIdx(typ, "array") :
          \E v \in Lists(typ, i) : SetArray(n, i, v)
    \/ \E n \in DOMAIN objs, i \in KindIdx(typ, "array"), x \in Indices :
          \E v \in ElemValues(typ, i) : SetItem(n, i, x, v)
    \/ \E n \in DOMAIN objs, i \in KindIdx(typ, "array"), x \in Indices : GetItem(n, i, x)
    \/ \E n \in DOMAIN objs, i \in KindIdx(typ, "array") : ToNumpy(n, i)
    \/ \E n \in DOMAIN objs, s \in KindIdx(typ, "struct") :
          \E i \in FieldsOf(classes[typ].fields[s].st), len \in Lengths, rb \in BOOLEAN :
             NestedResize(n, s, i, len, rb)
    \/ \E n \in DOMAIN objs, s \in KindIdx(typ, "struct") :
          \E i \in KindIdx(classes[typ].fields[s].st, "int"), v \in Vals :
             NestedSetInt(n, s, i, v)
    \/ \E n \in DOMAIN objs, s \in KindIdx(typ, "struct") :
          \E i \in KindIdx(classes[typ].fields[s].st, "bytes"), v \in ByteSeqs :
             NestedSetBytes(n, s, i, v)

Spec == Init /\ [][Next]_vars

-----------------------------------------------------------------------------
(* Two instances of one struct type.  Instance b is T(f=list) or T(): it   *)
(* was built with an initial value for its array field, or with none, and  *)
(* is left alone; instance a is driven through its array field.            *)

\* T(**kwargs): the setter of each named field runs after construction.
Constructed(t, i, values) ==
    array_setvalue(NewStruct(t, 0), Zeros(classes[t].min_size), [k \in ArrayKeys |-> 0], i, values)

IsoTypes == {"AS", "ES"}

InitIso ==
    /\ classes = ClassTable
    /\ typ \in IsoTypes
    /\ \E i \in KindIdx(typ, "array") : \E assigned \in BOOLEAN :
          \E values \in IF assigned THEN Lists(typ, i) ELSE {<<>>} :
             LET b == IF assigned
                      THEN Constructed(typ, i, values)
                      ELSE W(NewStruct(typ, 0), Zeros(classes[typ].min_size),
                             [k \in ArrayKeys |-> 0], "", <<>>)
             IN  /\ objs = [n \in {"a", "b"} |-> IF n = "a" THEN NewStruct(typ, 0) ELSE b.o]
                 /\ data = [n \in {"a", "b"} |-> IF n = "a" THEN Zeros(classes[typ].min_size) ELSE b.d]
                 /\ elem_off = b.eo
    /\ last = NoCall

NextIso ==
    \/ \E i \in KindIdx(typ, "array"), len \in Lengths, rb \in BOOLEAN : Resize("a", i, len, rb)
    \/ \E i \in KindIdx(typ, "array") : \E v \in Lists(typ, i) : SetArray("a", i, v)
    \/ \E i \in KindIdx(typ, "array"), x \in Indices :
          \E v \in ElemValues(typ, i) : SetItem("a", i, x, v)
    \/ \E i \in KindIdx(typ, "array"), x \in Indices : GetItem("a", i, x)
    \/ \E i \in KindIdx(typ, "array") : ToNumpy("a", i)

SpecIso == InitIso /\ [][NextIso]_vars

-----------------------------------------------------------------------------
(* What a client observes of an instance.                                  *)

\* The size, the shape and the contents an instance (its instance state o
\* over the buffer d, with the element offsets eo) reports for array field i.
ArrayView(o, d, eo, i) ==
    LET r == to_numpy(o, d, eo, i)
    IN  [size |-> get_size(o, i), shape |-> proxy_shape(o, i),
         err |-> r.err, contents |-> r.val]

-----------------------------------------------------------------------------
(* C1: instance isolation.  Whatever is assigned to, or resized on, a      *)
(* dynamic array field of one instance, the size, the shape and the        *)
(* contents every other instance of the struct type reports for that       *)
(* field stay as they were.                                                *)
C1_InstanceIsolation ==
    [][\A n \in DOMAIN objs :
          (last'.inst = n /\ last'.op \in {"set_array", "resize", "setitem"})
              => \A m \in DOMAIN objs \ {n} : \A i \in KindIdx(typ, "array") :
                    ArrayView(objs'[m], data'[m], elem_off', i)
                        = ArrayView(objs[m], data[m], elem_off, i)]_vars

\* Instance a holds two elements after an assignment while instance b holds
\* a different number of elements, or none because it was never assigned.
C1_Witness ==
    /\ "b" \in DOMAIN objs
    /\ last.op = "set_array" /\ last.inst = "a" /\ last.err = ""
    /\ \E i \in KindIdx(typ, "array") :
          /\ ArrayView(objs["a"], data["a"], elem_off, i).shape = <<2>>
          /\ ArrayView(objs["b"], data["b"], elem_off, i).shape # <<2>>
          /\ ArrayView(objs["b"], data["b"], elem_off, i).err = ""

-----------------------------------------------------------------------------
(* What the claims below observe.                                          *)

\* The struct a call was made on: instance o itself, or the nested value
\* o returns for its StructField via.
Target(o, via) ==
    IF via = 0 THEN o ELSE get_instance_data(struct_getvalue(o, via), via).inner

\* What reading field k of struct o over buffer d gives: the integer of an
\* IntegerField, the bytes of a byte-range view (err is the exception).
getvalue(o, d, k) ==
    CASE field(o, k).kind = "int" ->
            simple_getvalue(d, calc_offset(o, k), field(o, k).size)
      [] field(o, k).kind = "bytes" -> to_bytearray(o, d, k)
      [] OTHER -> [err |-> "", val |-> <<>>]

\* The fields of struct o declared after field f.
After(o, f) == {k \in DOMAIN classes[o.type].fields : k > f}

\* No field declared after f, up to and including k, has a literal integer
\* offset.
Chained(o, f, k) ==
    \A j \in DOMAIN classes[o.type].fields : (f < j /\ j <= k) => ~int_offset(field(o, j))

-----------------------------------------------------------------------------
(* C2: resize(field, n, resize_bytes=True) on a dynamic field at absolute  *)
(* offset o whose size goes from old to new rewrites the buffer to         *)
(* data[0:o+min(old,new)] ++ zeros(max(0,new-old)) ++ data[o+old:].        *)

\* t and d are the struct and the buffer before the call, t2 and d2 after.
RewrittenInPlace(t, d, t2, d2, f) ==
    d2 = Slice(d, 0, calc_offset(t, f) + Min(get_size(t, f), get_size(t2, f)))
         \o Zeros(Max(0, get_size(t2, f) - get_size(t, f)))
         \o SliceFrom(d, calc_offset(t, f) + get_size(t, f))

C2_PhysicalResize ==
    [][(last'.op = "resize" /\ last'.resize_bytes /\ last'.err = "")
          => RewrittenInPlace(Target(objs[last'.inst], last'.via), data[last'.inst],
                              Target(objs'[last'.inst], last'.via), data'[last'.inst],
                              last'.f)]_vars

\* A byte-range field holding one non-zero byte was grown to two bytes
\* in front of a non-zero byte.
C2_Witness ==
    /\ last.op = "resize" /\ last.resize_bytes /\ last.err = "" /\ last.via = 0
    /\ field(objs["a"], last.f).kind = "bytes"
    /\ to_bytearray(objs["a"], data["a"], last.f).val \in {<<1, 0>>, <<2, 0>>}
    /\ Len(data["a"]) > calc_offset(objs["a"], last.f) + 2
    /\ data["a"][calc_offset(objs["a"], last.f) + 3] # 0

-----------------------------------------------------------------------------
(* C3: trailing data is preserved by a physical resize.                    *)

\* The top-level field after which the fields trail a resize of field f made
\* through via: f itself, or the StructField the nested value belongs to.
Anchor(via, f) == IF via = 0 THEN f ELSE via

\* Top-level field k is positioned relative to the resized field f: no field
\* with a literal integer offset is declared after f up to and including k
\* (for a nested f: after f in the nested struct t, nor after the nested
\* field up to and including k).
ChainedTo(o, t, via, f, k) ==
    /\ Chained(o, Anchor(via, f), k)
    /\ via # 0 => Chained(t, f, classes[t.type].last_field)

\* The trailing fields of the top-level struct across a resize of field f
\* from struct t to t2 (o, d before the call and o2, d2 after it): a field
\* in `moving` reads what it read and its offset has moved by the change of
\* f's size, a trailing field outside `moving` keeps its offset.
TrailingMoved(o, d, t, o2, d2, t2, via, f, moving) ==
    \A k \in After(o, Anchor(via, f)) :
        IF k \in moving
        THEN /\ getvalue(o2, d2, k) = getvalue(o, d, k)
             /\ calc_offset(o2, k) = calc_offset(o, k) + (get_size(t2, f) - get_size(t, f))
        ELSE calc_offset(o2, k) = calc_offset(o, k)

PhysicalResize == last'.op = "resize" /\ last'.resize_bytes /\ last'.err = ""

-----------------------------------------------------------------------------
(* C4: offset chaining.                                                    *)

\* The current size of field j of struct o: the static size of a fixed
\* field, the 'size' entry of the instance state store of a dynamic
\* byte-range or array field, the current size of a nested struct.
CurrentSize(o, j) ==
    CASE field(o, j).kind = "struct" ->
            IF get_instance_data(o, j).inner = NoObj THEN field(o, j).size
            ELSE size(get_instance_data(o, j).inner)
      [] field(o, j).kind \in {"bytes", "array"} /\ field(o, j).is_instance ->
            get_instance_data(o, j).size
      [] OTHER -> field(o, j).size

\* The sum of the current sizes of fields from..(k - 1) of struct o.
SizesBetween(o, from, k) ==
    SeqSum([j \in 1..(k - from) |-> CurrentSize(o, from + j - 1)])

\* The last field at or before k that declares a literal integer offset
\* (the first field when there is none), and the offset it gives.
ChainStart(o, k) ==
    IF \E j \in 1..k : int_offset(field(o, j))
    THEN CHOOSE j \in 1..k : /\ int_offset(field(o, j))
                             /\ \A m \in (j + 1)..k : ~int_offset(field(o, m))
    ELSE 1
LiteralOffset(o, j) == IF int_offset(field(o, j)) THEN field(o, j).off[1] ELSE 0

\* The struct values of an instance: the instance, the nested values of
\* its StructFields and the element views its arrays hold.
Structs(o) ==
    ({o} \cup {get_instance_data(o, j).inner : j \in DOMAIN o.idata}
         \cup {get_instance_data(o, j).einner : j \in DOMAIN o.idata}) \ {NoObj}

\* C4 as stated: in every reachable state calc_field_offset(F) is the
\* offset of the first field plus the sum of the current sizes of all
\* fields declared before F, and calc_offset(F) is master_offset plus it.
C4_OffsetFromFirstField ==
    \A n \in DOMAIN objs : \A x \in Structs(objs[n]) : \A k \in DOMAIN x.idata :
        /\ calc_field_offset(x, k) = LiteralOffset(x, 1) + SizesBetween(x, 1, k)
        /\ calc_offset(x, k) = x.master_offset + calc_field_offset(x, k)

\* C4 as amended: calc_field_offset(F) is the literal integer offset of the
\* last field at or before F that declares one (0 at the first field when
\* none does) plus the sum of the current sizes of the fields declared from
\* that field up to F, and calc_offset(F) is master_offset plus it.
C4_OffsetFromLastLiteral ==
    \A n \in DOMAIN objs : \A x \in Structs(objs[n]) : \A k \in DOMAIN x.idata :
        /\ calc_field_offset(x, k)
              = LiteralOffset(x, ChainStart(x, k)) + SizesBetween(x, ChainStart(x, k), k)
        /\ calc_offset(x, k)
              = x.master_offset + LiteralOffset(x, ChainStart(x, k))
                + SizesBetween(x, ChainStart(x, k), k)

\* Fields A (fixed, offset 0), B (dynamic, resized to a non-zero size), C:
\* calc_field_offset(C) is size(A) + size(B), here 1 + 2.
C4_Witness ==
    /\ typ = "AS" /\ last.op = "resize" /\ last.err = ""
    /\ CurrentSize(objs["a"], 2) = 2
    /\ calc_field_offset(objs["a"], 3) = 3

-----------------------------------------------------------------------------
(* C5: a logical-only resize, resize(field, n) with resize_bytes=False,    *)
(* changes only the instance state of that field: every buffer is          *)
(* byte for byte what it was, the other fields' entries are what they      *)
(* were, and the offsets of the later fields and the logical size of the   *)
(* struct are those the new size gives.                                    *)

\* t, t2: the struct the call was made on, before and after it.
OnlyEntryChanged(t, t2, f) ==
    /\ t2.type = t.type /\ t2.master_offset = t.master_offset
    /\ \A j \in DOMAIN t.idata : j # f => get_instance_data(t2, j) = get_instance_data(t, j)

LogicalSizeMoved(t, t2, f) ==
    /\ \A k \in After(t, f) :
          calc_offset(t2, k) = calc_offset(t, k)
                               + (IF Chained(t, f, k) THEN get_size(t2, f) - get_size(t, f) ELSE 0)
    /\ size(t2) = size(t)
                  + (IF Chained(t, f, classes[t.type].last_field)
                     THEN get_size(t2, f) - get_size(t, f) ELSE 0)

C5_LogicalResize ==
    [][(last'.op = "resize" /\ ~last'.resize_bytes /\ last'.err = "")
          => /\ data' = data
             /\ elem_off' = elem_off
             /\ OnlyEntryChanged(Target(objs[last'.inst], last'.via),
                                 Target(objs'[last'.inst], last'.via), last'.f)
             /\ LogicalSizeMoved(Target(objs[last'.inst], last'.via),
                                 Target(objs'[last'.inst], last'.via), last'.f)
             /\ LogicalSizeMoved(objs[last'.inst], objs'[last'.inst],
                                 Anchor(last'.via, last'.f))]_vars

\* A logical resize made the field two bytes long and the struct larger
\* than its buffer, which still holds a non-zero byte.
C5_Witness ==
    /\ last.op = "resize" /\ ~last.resize_bytes /\ last.err = ""
    /\ get_size(Target(objs["a"], last.via), last.f) = 2
    /\ size(objs["a"]) > Len(data["a"])
    /\ \E b \in DOMAIN data["a"] : data["a"][b] # 0

-----------------------------------------------------------------------------
(* C6: check_overflow() raises an overflow error exactly when the offset   *)
(* after the last declared field exceeds len(data); it changes neither the *)
(* buffer nor the instance state; and in a state where it raises, reading  *)
(* a field that lies inside the buffer succeeds and gives the value it     *)
(* gave before the call.                                                   *)

InBounds(o, d, k) == calc_offset(o, k) + get_size(o, k) <= Len(d)

OverflowChecked(o, d, o2, d2, err) ==
    /\ err = "OverflowError"
          <=> calc_field_offset(o, classes[o.type].last_field)
              + get_size(o, classes[o.type].last_field) > Len(d)
    /\ err \in {"", "OverflowError"}
    /\ o2 = o /\ d2 = d
    /\ \A k \in DOMAIN o.idata :
          InBounds(o, d, k) => /\ getvalue(o2, d2, k).err = ""
                               /\ getvalue(o2, d2, k) = getvalue(o, d, k)

C6_CheckOverflow ==
    [][last'.op = "check_overflow"
          => /\ OverflowChecked(objs[last'.inst], data[last'.inst],
                                objs'[last'.inst], data'[last'.inst], last'.err)
             /\ objs' = objs /\ data' = data /\ elem_off' = elem_off]_vars

\* check_overflow raised on a struct one of whose integer fields lies inside
\* the buffer and reads a non-zero value.
C6_Witness ==
    /\ last.op = "check_overflow" /\ last.err = "OverflowError"
    /\ \E k \in DOMAIN objs["a"].idata :
          /\ field(objs["a"], k).kind = "int"
          /\ InBounds(objs["a"], data["a"], k)
          /\ getvalue(objs["a"], data["a"], k).val \in {<<1>>, <<2>>}

-----------------------------------------------------------------------------
(* Assignments.  The step taken is the assignment of a value v when the    *)
(* struct and the buffer after the step are those the setter returns.      *)

Returned(w, o2, d2) == w.err = "" /\ w.o = o2 /\ w.d = d2

-----------------------------------------------------------------------------
(* C7: assigning a byte sequence v whose length differs from the current   *)
(* length to a variable-length byte-range field resizes it logically and   *)
(* physically: the field's view then has length len(v) and content v,      *)
(* len(data) has changed by exactly len(v) - old length, and every field   *)
(* declared after it (and positioned relative to it) reads the value it    *)
(* read before.                                                            *)

ByteRangeAssigned(o, d, t, o2, d2, t2, via, f, v) ==
    /\ to_bytearray(t2, d2, f) = [err |-> "", val |-> v]
    /\ Len(d2) = Len(d) + Len(v) - get_instance_data(t, f).size
    /\ \A k \in After(o, Anchor(via, f)) :
          ChainedTo(o, t, via, f, k) => getvalue(o2, d2, k) = getvalue(o, d, k)

C7_ByteRangeAutoResize ==
    [][(last'.op = "set_bytes" /\ last'.err = "") =>
          \A v \in ByteSeqs :
             ( /\ Len(v) # get_instance_data(Target(objs[last'.inst], last'.via), last'.f).size
               /\ Returned(bytes_setvalue(Target(objs[last'.inst], last'.via),
                                          data[last'.inst], elem_off, last'.f, v),
                           Target(objs'[last'.inst], last'.via), data'[last'.inst]) )
             => ByteRangeAssigned(objs[last'.inst], data[last'.inst],
                                  Target(objs[last'.inst], last'.via),
                                  objs'[last'.inst], data'[last'.inst],
                                  Target(objs'[last'.inst], last'.via),
                                  last'.via, last'.f, v)]_vars

-----------------------------------------------------------------------------
(* C8: assigning a list of n elements, scalars or structs, to a dynamic    *)
(* array field whose current shape differs resizes the field to (n,)       *)
(* before writing: to_numpy() then returns the assigned elements in order, *)
(* len(data) has changed by exactly (n - old element count) * element      *)
(* size, and every field declared after the array (and positioned          *)
(* relative to it) reads the value it read before.                         *)

\* What the elements of an assigned list read as.
Elements(o, f, values) ==
    [k \in 1..Len(values) |->
        IF field(o, f).ekind = "struct" THEN ReadScalars(values[k].o, values[k].d)
        ELSE values[k]]

ArrayAssigned(o, d, o2, d2, eo2, f, values) ==
    /\ to_numpy(o2, d2, eo2, f).err = ""
    /\ to_numpy(o2, d2, eo2, f).val = Elements(o, f, values)
    /\ Len(d2) = Len(d) + (Len(values) - prod(proxy_shape(o, f))) * elem_size(field(o, f))
    /\ \A k \in After(o, f) : Chained(o, f, k) => getvalue(o2, d2, k) = getvalue(o, d, k)

\* The set_array steps of the struct types in `types`.
ArrayAssignIn(types) ==
    (last'.op = "set_array" /\ last'.err = "" /\ typ \in types) =>
        \A values \in Lists(typ, last'.f) :
           ( /\ <<Len(values)>> # proxy_shape(objs[last'.inst], last'.f)
             /\ Returned(array_setvalue(objs[last'.inst], data[last'.inst], elem_off,
                                        last'.f, values),
                         objs'[last'.inst], data'[last'.inst]) )
           => ArrayAssigned(objs[last'.inst], data[last'.inst],
                            objs'[last'.inst], data'[last'.inst], elem_off',
                            last'.f, values)

C8_ArrayAssign == [][ArrayAssignIn(TopTypes)]_vars

-----------------------------------------------------------------------------
(* C9: assigning one element through the array view, arr[i] = v, never    *)
(* resizes: for scalar and for struct elements, whatever accesses came     *)
(* before, len(data), the array's shape and every byte outside the byte    *)
(* range of element i are what they were.                                  *)

\* The 0-based offset of the element the index x resolves to.
ElementStart(o, f, x) ==
    calc_offset(o, f)
    + get_array_index(proxy_shape(o, f), to_absolute_indices(proxy_shape(o, f), x))
      * elem_size(field(o, f))

ElementAssigned(o, d, o2, d2, f, x) ==
    /\ Len(d2) = Len(d)
    /\ proxy_shape(o2, f) = proxy_shape(o, f)
    /\ \A b \in 1..Len(d) :
          (b <= ElementStart(o, f, x) \/ b > ElementStart(o, f, x) + elem_size(field(o, f)))
              => d2[b] = d[b]

\* The setitem steps of the struct types in `types`.
ElementAssignIn(types) ==
    (last'.op = "setitem" /\ last'.err = "" /\ typ \in types) =>
        \A x \in Indices : \A v \in ElemValues(typ, last'.f) :
           Returned(array_setitem(objs[last'.inst], data[last'.inst], elem_off,
                                  last'.f, x, v),
                    objs'[last'.inst], data'[last'.inst])
           => ElementAssigned(objs[last'.inst], data[last'.inst],
                              objs'[last'.inst], data'[last'.inst], last'.f, x)

C9_ElementAssign == [][ElementAssignIn(TopTypes)]_vars

-----------------------------------------------------------------------------
(* Indexing.  One instance of GS over a buffer that holds 1, 2, ... in its *)
(* two-byte elements; the client gives the array a shape of one or two     *)
(* dimensions (a logical resize) and reads elements by index tuples of the *)
(* shape's length.  last also records the index and the value returned.    *)

MaxDim == 3
\* The largest integer offset of a stand-alone scalar field.
MaxOffset == 2

\* bytearray([0, 1, 0, 2, 0, ...]): head, then MaxDim * MaxDim elements.
GridBytes == <<0>> \o [b \in 1..(2 * MaxDim * MaxDim) |-> IF b % 2 = 1 THEN (b + 1) \div 2 ELSE 0]

GridShapes == {<<a>> : a \in 0..MaxDim} \cup {<<a, b>> : a, b \in 1..MaxDim}
GridIndices == {<<i>> : i \in (0 - MaxDim - 1)..MaxDim}
               \cup {<<i, j>> : i, j \in (0 - MaxDim - 1)..MaxDim}

\* The state after an indexed call on instance n returned or raised w.
Observed(n, w, call, index) ==
    /\ objs' = [objs EXCEPT ![n] = w.o]
    /\ data' = [data EXCEPT ![n] = w.d]
    /\ elem_off' = w.eo
    /\ last' = [call EXCEPT !.err = w.err] @@ [index |-> index, val |-> w.val]
    /\ UNCHANGED <<classes, typ>>

\* GS(bytearray(...))
InitIdx ==
    /\ classes = ClassTable
    /\ typ = "GS"
    /\ objs = [n \in {"a"} |-> NewStruct("GS", 0)]
    /\ data = [n \in {"a"} |-> GridBytes]
    /\ elem_off = [k \in ArrayKeys |-> 0]
    /\ last = NoCall @@ [index |-> <<>>, val |-> <<>>]

\* n.resize(T.f_field, shape)
Reshape(n, i, shape) ==
    Observed(n, resize(objs[n], data[n], elem_off, i, shape, FALSE),
             Call("resize", n, 0, i, FALSE), <<>>)

\* n.f[index], index of the length of the shape
GetItemAt(n, i, index) ==
    /\ Len(index) = Len(proxy_shape(objs[n], i))
    /\ Observed(n, array_getitem(objs[n], data[n], elem_off, i, index),
                Call("getitem", n, 0, i, FALSE), index)

NextIdx ==
    \/ \E i \in KindIdx(typ, "array"), shape \in GridShapes : Reshape("a", i, shape)
    \/ \E i \in KindIdx(typ, "array"), x \in GridIndices : GetItemAt("a", i, x)

SpecIdx == InitIdx /\ [][NextIdx]_vars

-----------------------------------------------------------------------------
(* C10: array index mapping.  For an array of current shape S and an index *)
(* tuple, each negative component i_k stands for i_k + s_k; if a resolved  *)
(* component is outside [0, s_k) the access fails with a bounds error and  *)
(* changes nothing; otherwise the element accessed is the one at byte      *)
(* offset base + (row-major flat index) * element size.  For shape (3,3)   *)
(* holding 1..9 in row-major order, arr[1,2] is 6 and arr[-1,-1] is 9.     *)

Resolved(shape, x) == [k \in 1..Len(x) |-> IF x[k] < 0 THEN x[k] + shape[k] ELSE x[k]]
InRange(shape, r) == \A k \in 1..Len(r) : 0 <= r[k] /\ r[k] < shape[k]

\* The row-major flat index: ((r_0 * s_1 + r_1) * s_2 + r_2) ...
RECURSIVE RowMajor(_, _, _)
RowMajor(shape, r, acc) ==
    IF r = <<>> THEN acc
    ELSE RowMajor(Tail(shape), Tail(r), acc * Head(shape) + Head(r))

\* The offset, from the start of the struct, of the element x stands for.
ElementAt(o, f, x) ==
    calc_field_offset(o, f)
    + RowMajor(proxy_shape(o, f), Resolved(proxy_shape(o, f), x), 0) * elem_size(field(o, f))

IndexMapped(o, d, eo, o2, d2, eo2, call) ==
    IF InRange(proxy_shape(o, call.f), Resolved(proxy_shape(o, call.f), call.index))
    THEN /\ call.err = ""
         /\ eo2[<<o.type, call.f>>] = ElementAt(o, call.f, call.index)
         /\ call.val = <<unpack(Slice(d, o.master_offset + ElementAt(o, call.f, call.index),
                                      o.master_offset + ElementAt(o, call.f, call.index)
                                      + elem_size(field(o, call.f))))>>
         /\ d2 = d
         /\ (proxy_shape(o, call.f) = <<3, 3>> /\ call.index = <<1, 2>>) => call.val = <<6>>
         /\ (proxy_shape(o, call.f) = <<3, 3>> /\ call.index = <<-1, -1>>) => call.val = <<9>>
    ELSE /\ call.err = "IndexError"
         /\ d2 = d
         /\ eo2 = eo
         /\ proxy_shape(o2, call.f) = proxy_shape(o, call.f)
         /\ get_size(o2, call.f) = get_size(o, call.f)

C10_IndexMapping ==
    [][last'.op = "getitem" =>
          IndexMapped(objs[last'.inst], data[last'.inst], elem_off,
                      objs'[last'.inst], data'[last'.inst], elem_off', last')]_vars

C10_Witness ==
    /\ last.op = "getitem" /\ last.err = ""
    /\ proxy_shape(objs[last.inst], last.f) = <<3, 3>>
    /\ last.index = <<-1, -1>>
    /\ last.val = <<9>>

-----------------------------------------------------------------------------
(* A nested struct behind a dynamic field.  One instance of PS: the client *)
(* resizes its fields, logically and physically, and reads and writes the  *)
(* nested struct through the value the parent returns for it.              *)

\* The struct values a client assigns to StructField s of type t: T(data)
\* over a buffer of min_size bytes or of one byte more, the latter also
\* with its last dynamic field resized to one byte.
StructValues(t, s) ==
    LET st == classes[t].fields[s].st
        over(bytes) == StructValue(st, bytes)
        grown(v) == [o |-> resize(v.o, v.d, <<>>, classes[st].last_field, <<1>>, FALSE).o,
                     d |-> v.d]
    IN  {over(b) : b \in [1..classes[st].min_size -> Vals]}
        \cup {over(b) : b \in [1..(classes[st].min_size + 1) -> Vals]}
        \cup {grown(over(b)) : b \in [1..(classes[st].min_size + 1) -> Vals]}

\* n.s = value for a StructField
SetStruct(n, i, value) ==
    /\ Ready(n)
    /\ Commit(n, struct_setvalue(objs[n], data[n], elem_off, i, value),
              Call("set_struct", n, 0, i, FALSE))

InitNest ==
    /\ classes = ClassTable
    /\ typ = "PS"
    /\ objs = [n \in {"a"} |-> NewStruct(typ, 0)]
    /\ data = [n \in {"a"} |-> Zeros(classes[typ].min_size)]
    /\ elem_off = [k \in ArrayKeys |-> 0]
    /\ last = NoCall

NextNest ==
    \/ \E i \in FieldsOf(typ), len \in Lengths, rb \in BOOLEAN : Resize("a", i, len, rb)
    \/ \E i \in KindIdx(typ, "int"), v \in Vals : SetInt("a", i, v)
    \/ \E s \in KindIdx(typ, "struct") :
          \E i \in FieldsOf(classes[typ].fields[s].st), len \in Lengths, rb \in BOOLEAN :
             NestedResize("a", s, i, len, rb)
    \/ \E s \in KindIdx(typ, "struct") :
          \E i \in KindIdx(classes[typ].fields[s].st, "int"), v \in Vals :
             NestedSetInt("a", s, i, v)
    \/ \E s \in KindIdx(typ, "struct") : \E v \in StructValues(typ, s) : SetStruct("a", s, v)

SpecNest == InitNest /\ [][NextNest]_vars

-----------------------------------------------------------------------------
(* C11: nested-struct freshness.  After any resize, logical or physical,   *)
(* of a dynamic field declared before a nested-struct field, the value the *)
(* parent returns for the nested field is a view on the parent's buffer    *)
(* whose master_offset is the parent's current calc_offset of the nested   *)
(* field, so a value written through that view is read back through it and *)
(* lies at the relocated offset in the parent's buffer.                    *)

\* Where the fields before field s of struct o put it: the sum of their
\* current sizes after the last literal offset.
Relocated(o, s) ==
    o.master_offset + LiteralOffset(o, ChainStart(o, s)) + SizesBetween(o, ChainStart(o, s), s)

\* o, d: the parent and its buffer when the nested value was fetched; o2, d2
\* after the integer v was assigned to field f of the nested value.
WrittenThroughView(o, d, o2, d2, s, f, v) ==
    /\ simple_getvalue(d2, calc_offset(Target(o2, s), f), field(Target(o2, s), f).size)
          = [err |-> "", val |-> <<v>>]
    /\ d2 = SliceAssign(d, Relocated(o, s) + calc_field_offset(Target(o, s), f),
                        Relocated(o, s) + calc_field_offset(Target(o, s), f)
                        + field(Target(o, s), f).size,
                        pack(field(Target(o, s), f).size, v))
    /\ Len(d2) = Len(d)

Refetched(o, d, o2, d2, call) ==
    /\ Target(o, call.via).master_offset = calc_offset(o, call.via)
    /\ Target(o, call.via).master_offset = Relocated(o, call.via)
    /\ call.err = "" =>
          \A v \in Vals :
             Returned(W(Target(o, call.via),
                        simple_setvalue(d, calc_offset(Target(o, call.via), call.f),
                                        field(Target(o, call.via), call.f).size, v).d,
                        <<>>, "", <<>>),
                      Target(o2, call.via), d2)
             => WrittenThroughView(o, d, o2, d2, call.via, call.f, v)
    /\ call.err # "" => d2 = d

C11_NestedFreshness ==
    [][(last'.op = "set_int" /\ last'.via # 0) =>
          Refetched(objs[last'.inst], data[last'.inst],
                    objs'[last'.inst], data'[last'.inst], last')]_vars

\* The byte range before the nested struct holds two bytes and the integer
\* written through the re-fetched nested value lies behind them.
C11_Witness ==
    /\ typ = "PS" /\ last.op = "set_int" /\ last.via = 2 /\ last.err = ""
    /\ get_size(objs["a"], 1) = 2
    /\ Target(objs["a"], 2).master_offset = 2
    /\ Len(data["a"]) > 2 /\ data["a"][3] \in Vals

-----------------------------------------------------------------------------
(* C12: assigning a struct value v to a nested-struct field copies v's     *)
(* bytes into the parent's buffer at the field's current offset, after     *)
(* resizing the parent's buffer by (v's logical size - the field's current *)
(* size) when they differ: afterwards every field read through             *)
(* parent.<field> equals the corresponding field of v, len(parent.data)    *)
(* has changed by exactly that size difference, and the parent's fields    *)
(* declared after the nested field read the values they read before.       *)

StructAssigned(o, d, o2, d2, s, value) ==
    /\ \A k \in DOMAIN classes[value.o.type].fields :
          getvalue(Target(o2, s), d2, k) = getvalue(value.o, value.d, k)
    /\ Len(d2) = Len(d) + (size(value.o) - get_size(o, s))
    /\ \A k \in After(o, s) : Chained(o, s, k) => getvalue(o2, d2, k) = getvalue(o, d, k)

\* The set_struct steps that assign one of `values`.
StructAssignOf(values) ==
    (last'.op = "set_struct" /\ last'.err = "") =>
        \A v \in values :
           Returned(struct_setvalue(objs[last'.inst], data[last'.inst], elem_off, last'.f, v),
                    objs'[last'.inst], data'[last'.inst])
           => StructAssigned(objs[last'.inst], data[last'.inst],
                             objs'[last'.inst], data'[last'.inst], last'.f, v)

C12_StructAssign ==
    [][last'.op = "set_struct" => StructAssignOf(StructValues(typ, last'.f))]_vars

-----------------------------------------------------------------------------
(* Views.  One instance of VS over bytearray([1, 2, 3]).  The client       *)
(* first obtains the view of a byte-range or array field (v = s.f), keeps  *)
(* it, then resizes fields of the instance and reads through the view it   *)
(* kept.  last also records the view the client holds, the index of the    *)
(* last element read and what the last read returned.                      *)

\* ArrayFieldProxy(byte_struct, field) and ByteArrayFieldProxy(byte_struct,
\* field): the view holds the instance and the field descriptor, no data.
FieldProxy(n, i) == [byte_struct |-> n, field |-> i]
NoView == [byte_struct |-> "", field |-> 0]

\* A view whose shape is the declared one.
view_shape_declared(o, i) ==
    IF field(o, i).kind = "bytes" THEN <<field(o, i).size>>
    ELSE DeclShape(field(o, i))

\* len(view) of a byte-range view, view.shape of an array view.
view_shape(o, i) ==
    IF field(o, i).kind = "bytes" THEN <<get_instance_data(o, i).size>>
    ELSE proxy_shape(o, i)

\* view.to_bytearray() or view.to_numpy(), with the shape the view reports.
view_read(o, d, eo, i) ==
    LET bytes(r) == W(o, d, eo, r.err, <<view_shape(o, i), r.val>>)
        elems(r) == W(r.o, r.d, r.eo, r.err, <<view_shape(o, i), r.val>>)
    IN  IF field(o, i).kind = "bytes" THEN bytes(to_bytearray(o, d, i))
        ELSE elems(to_numpy(o, d, eo, i))

\* view[index]
view_getitem(o, d, eo, i, index) ==
    LET byte(r) == W(o, d, eo, r.err, r.val)
    IN  IF field(o, i).kind = "bytes" THEN byte(bytes_getitem(o, d, i, index[1]))
        ELSE array_getitem(o, d, eo, i, index)

ViewBytes == <<1, 2, 3>>

InitView ==
    /\ classes = ClassTable
    /\ typ = "VS"
    /\ objs = [n \in {"a"} |-> NewStruct(typ, 0)]
    /\ data = [n \in {"a"} |-> ViewBytes]
    /\ elem_off = [k \in ArrayKeys |-> 0]
    /\ last = NoCall @@ [view |-> NoView, index |-> <<>>, val |-> <<>>]

\* The state after a call returned or raised w while the client holds a view.
ViewCommit(n, w, call, view, index) ==
    /\ objs' = [objs EXCEPT ![n] = w.o]
    /\ data' = [data EXCEPT ![n] = w.d]
    /\ elem_off' = w.eo
    /\ last' = [call EXCEPT !.err = w.err]
               @@ [view |-> view, index |-> index, val |-> w.val]
    /\ UNCHANGED <<classes, typ>>

\* v = n.f
Obtain(n, i) ==
    /\ last.view = NoView
    /\ ViewCommit(n, W(objs[n], data[n], elem_off, "", <<>>), Call("view", n, 0, i, FALSE),
                  FieldProxy(n, i), <<>>)

\* n.resize(T.f_field, length, resize_bytes) while the view is held
ViewResize(n, i, len, rb) ==
    /\ Ready(n)
    /\ last.view # NoView
    /\ ViewCommit(n, resize(objs[n], data[n], elem_off, i, <<len>>, rb),
                  Call("resize", n, 0, i, rb), last.view, <<>>)

\* v.shape or len(v), with v.to_numpy() or v.to_bytearray()
ViewRead ==
    /\ last.view # NoView
    /\ ViewCommit(last.view.byte_struct,
                  view_read(objs[last.view.byte_struct], data[last.view.byte_struct],
                            elem_off, last.view.field),
                  Call("view_read", last.view.byte_struct, 0, last.view.field, FALSE),
                  last.view, <<>>)

\* v[index]
ViewGetItem(index) ==
    /\ last.view # NoView
    /\ ViewCommit(last.view.byte_struct,
                  view_getitem(objs[last.view.byte_struct], data[last.view.byte_struct],
                               elem_off, last.view.field, index),
                  Call("view_getitem", last.view.byte_struct, 0, last.view.field, FALSE),
                  last.view, index)

NextView ==
    \/ \E i \in KindIdx(typ, "bytes") \cup KindIdx(typ, "array") : Obtain("a", i)
    \/ \E i \in KindIdx(typ, "bytes") \cup KindIdx(typ, "array") :
          \E len \in Lengths, rb \in BOOLEAN : ViewResize("a", i, len, rb)
    \/ ViewRead
    \/ \E x \in Indices : ViewGetItem(x)

SpecView == InitView /\ [][NextView]_vars

-----------------------------------------------------------------------------
(* C13: views stay valid across resizes.  An array view or byte-range view *)
(* obtained before a resize of its own field or of an earlier dynamic      *)
(* field reports, on every later access, the shape or length and the       *)
(* element values that a view obtained from the instance after the resize  *)
(* reports: those of the instance's current state.                         *)

\* What a view obtained now reports for field f of instance o over d: the
\* current length or shape of the field and the elements that lie at the
\* field's current offset.
FreshShape(o, f) ==
    IF field(o, f).kind = "bytes" THEN <<get_instance_data(o, f).size>>
    ELSE IF get_instance_data(o, f).has_shape THEN get_instance_data(o, f).shape
    ELSE <<0>>
UnitSize(o, f) == IF field(o, f).kind = "bytes" THEN 1 ELSE field(o, f).elen
FreshElement(o, d, f, k) ==
    IF field(o, f).kind = "bytes" THEN d[Relocated(o, f) + k + 1]
    ELSE <<unpack(Slice(d, Relocated(o, f) + k * UnitSize(o, f),
                        Relocated(o, f) + (k + 1) * UnitSize(o, f)))>>
Reaches(o, d, f, count) == Relocated(o, f) + count * UnitSize(o, f) <= Len(d)

FreshRead(o, d, f) ==
    IF (field(o, f).kind = "bytes" \/ prod(FreshShape(o, f)) > 0)
       /\ ~Reaches(o, d, f, prod(FreshShape(o, f)))
    THEN [err |-> "IndexError", val |-> <<FreshShape(o, f), <<>>>>]
    ELSE [err |-> "",
          val |-> <<FreshShape(o, f),
                    [k \in 1..prod(FreshShape(o, f)) |-> FreshElement(o, d, f, k - 1)]>>]

FreshItem(o, d, f, x) ==
    IF field(o, f).kind = "bytes" /\ ~Reaches(o, d, f, prod(FreshShape(o, f)))
    THEN [err |-> "IndexError", val |-> <<>>]
    ELSE IF ~InRange(FreshShape(o, f), Resolved(FreshShape(o, f), x))
    THEN [err |-> "IndexError", val |-> <<>>]
    ELSE IF ~Reaches(o, d, f, Resolved(FreshShape(o, f), x)[1] + 1)
    THEN [err |-> "IndexError", val |-> <<>>]
    ELSE [err |-> "",
          val |-> IF field(o, f).kind = "bytes"
                  THEN <<FreshElement(o, d, f, Resolved(FreshShape(o, f), x)[1])>>
                  ELSE FreshElement(o, d, f, Resolved(FreshShape(o, f), x)[1])]

C13_ViewsStayValid ==
    [][/\ last'.op = "view_read" =>
             [err |-> last'.err, val |-> last'.val]
                = FreshRead(objs[last'.inst], data[last'.inst], last'.f)
       /\ last'.op = "view_getitem" =>
             [err |-> last'.err, val |-> last'.val]
                = FreshItem(objs[last'.inst], data[last'.inst], last'.f, last'.index)
       /\ last'.op \in {"view_read", "view_getitem"} => data' = data]_vars

\* The array view, obtained while the array was empty, is read after the
\* byte range before the array was resized to one byte and the array to
\* two elements: it reports shape (2,) and the elements 2 and 3.
C13_Witness ==
    /\ last.op = "view_read" /\ last.err = ""
    /\ field(objs["a"], last.view.field).kind = "array"
    /\ get_instance_data(objs["a"], 1).size = 1
    /\ last.val = <<<<2>>, <<<<2>>, <<3>>>>>>

-----------------------------------------------------------------------------
(* A variable field behind a dynamic field.  One instance of US over       *)
(* bytearray(b'abc'): the client resizes the byte range, assigns and       *)
(* re-assigns the type of the variable field, and reads and writes through *)
(* it.  last also records what the last read returned.                     *)

VarBytes == <<97, 98, 99>>

\* The child descriptors a client passes, and the values it assigns through
\* a child: integers, and strings of the child's length over 'd'.
Children == {ChildInteger(1), ChildString(1), ChildString(2)}
Chars == {100}
ChildValues(c) ==
    IF c.kind = "str" THEN {<<s>> : s \in [1..c.size -> Chars]}
    ELSE {<<v>> : v \in Vals}

InitVar ==
    /\ classes = ClassTable
    /\ typ = "US"
    /\ objs = [n \in {"a"} |-> NewStruct(typ, 0)]
    /\ data = [n \in {"a"} |-> VarBytes]
    /\ elem_off = [k \in ArrayKeys |-> 0]
    /\ last = NoCall @@ [val |-> <<>>]

\* The state after a call on instance n returned val or raised.
VarCommit(n, w, call) ==
    /\ objs' = [objs EXCEPT ![n] = w.o]
    /\ data' = [data EXCEPT ![n] = w.d]
    /\ elem_off' = w.eo
    /\ last' = [call EXCEPT !.err = w.err] @@ [val |-> w.val]
    /\ UNCHANGED <<classes, typ>>

\* n.resize(T.f_field, length, resize_bytes) of the byte range
VarResize(n, i, len, rb) ==
    /\ Ready(n)
    /\ VarCommit(n, resize(objs[n], data[n], elem_off, i, <<len>>, rb),
                 Call("resize", n, 0, i, rb))

\* n.resize(T.v_field, child, resize_bytes)
Retype(n, i, child, rb) ==
    /\ Ready(n)
    /\ VarCommit(n, resize(objs[n], data[n], elem_off, i, child, rb),
                 Call("retype", n, 0, i, rb))

\* n.v
GetVar(n, i) ==
    /\ LET read(r) == W(objs[n], data[n], elem_off, r.err, r.val)
       IN  VarCommit(n, read(variable_getvalue(objs[n], data[n], i)),
                     Call("get_var", n, 0, i, FALSE))

\* n.v = value
SetVar(n, i, value) ==
    /\ Ready(n)
    /\ LET written(r) == W(objs[n], r.d, elem_off, r.err, <<>>)
       IN  VarCommit(n, written(variable_setvalue(objs[n], data[n], i, value)),
                     Call("set_var", n, 0, i, FALSE))

NextVar ==
    \/ \E i \in KindIdx(typ, "bytes"), len \in Lengths, rb \in BOOLEAN :
          VarResize("a", i, len, rb)
    \/ \E i \in KindIdx(typ, "var"), c \in Children, rb \in BOOLEAN : Retype("a", i, c, rb)
    \/ \E i \in KindIdx(typ, "var") : GetVar("a", i)
    \/ \E i \in KindIdx(typ, "var") :
          \E v \in ChildValues(get_instance_data(objs["a"], i).child) : SetVar("a", i, v)

SpecVar == InitVar /\ [][NextVar]_vars

-----------------------------------------------------------------------------
(* C14: after resize(variable_field, child), every get and set through the *)
(* variable field reads or writes the bytes that start at                  *)
(* calc_offset(variable_field), the variable field's own current offset,   *)
(* and the size of the variable field is the child's size; also when a     *)
(* dynamic field with a nonzero current size is declared before the        *)
(* variable field, and after that field was resized again.                 *)

\* What a descriptor of the kind and size of c reads from d at offset, and
\* what a write of value through it at offset makes of d.
ReadAs(c, d, offset) ==
    IF c.kind = "str" THEN string_getvalue(d, offset, c.size)
    ELSE simple_getvalue(d, offset, c.size)
WrittenAs(c, d, offset, value) ==
    IF c.kind = "str" THEN fixed_string_setvalue(d, offset, c.size, value[1])
    ELSE simple_setvalue(d, offset, c.size, value[1])

\* The child assigned to variable field f of o (NoChild: none).
ChildOf(o, f) == get_instance_data(o, f).child

VariableAt(o, d, d2, call) ==
    /\ get_size(o, call.f) = ChildOf(o, call.f).size
    /\ call.op = "get_var" =>
          [err |-> call.err, val |-> call.val]
             = ReadAs(ChildOf(o, call.f), d, calc_offset(o, call.f))
    /\ call.op = "set_var" =>
          \A v \in ChildValues(ChildOf(o, call.f)) :
             variable_setvalue(o, d, call.f, v) = [err |-> call.err, d |-> d2]
             => WrittenAs(ChildOf(o, call.f), d, calc_offset(o, call.f), v)
                   = [err |-> call.err, d |-> d2]

C14_VariableFieldOffset ==
    [][(last'.op \in {"get_var", "set_var"}
        /\ ChildOf(objs[last'.inst], last'.f) # NoChild)
       => VariableAt(objs[last'.inst], data[last'.inst], data'[last'.inst], last')]_vars

-----------------------------------------------------------------------------
(* C15: re-typing a variable field reinterprets the same byte range.       *)
(* resize(variable_field, child2) with resize_bytes=False leaves the       *)
(* buffer unchanged and the field then reads the bytes it read before      *)
(* under the new type; with resize_bytes=True and a child larger by k      *)
(* bytes, the field reads the old bytes followed by k zero bytes.  The     *)
(* byte range is taken to start where the field read before the call.      *)

\* o, d before and o2, d2 after variable field f, whose bytes start at
\* `start`, was given a new child.
Retyped(o, d, o2, d2, f, start, rb) ==
    /\ ~rb => /\ d2 = d
              /\ variable_getvalue(o2, d2, f) = ReadAs(ChildOf(o2, f), d, start)
    /\ (rb /\ ChildOf(o2, f).size > ChildOf(o, f).size
           /\ start + ChildOf(o, f).size <= Len(d)) =>
          variable_getvalue(o2, d2, f)
             = ReadAs(ChildOf(o2, f),
                      Slice(d, start, start + ChildOf(o, f).size)
                         \o Zeros(ChildOf(o2, f).size - ChildOf(o, f).size), 0)

C15_Retype ==
    [][(last'.op = "retype" /\ last'.err = ""
        /\ ChildOf(objs[last'.inst], last'.f) # NoChild)
       => Retyped(objs[last'.inst], data[last'.inst], objs'[last'.inst], data'[last'.inst],
                  last'.f, child_calc_offset(objs[last'.inst],
                                             ChildOf(objs[last'.inst], last'.f)),
                  last'.resize_bytes)]_vars

-----------------------------------------------------------------------------
(* C16: before a type was assigned to a variable field, setting it fails   *)
(* with the 'no type assigned' exception and getting it returns None       *)
(* without an error; both leave the buffer and the instance state          *)
(* unchanged.                                                              *)

Untyped(call) == call.op \in {"get_var", "set_var"} /\ ChildOf(objs[call.inst], call.f) = NoChild

C16_UntypedAccess ==
    [][Untyped(last') =>
          /\ objs' = objs /\ data' = data
          /\ last'.op = "get_var" => (last'.err = "" /\ last'.val = <<>>)
          /\ last'.op = "set_var" => last'.err = "Exception"]_vars

\* As stated: the get fails as the set does.
C16_BothFail ==
    [][Untyped(last') => (last'.err # "" /\ objs' = objs /\ data' = data)]_vars

\* The variable field, behind a byte range of one byte, was read before a
\* type was assigned to it: the read returned None.
C16_Witness ==
    /\ last.op = "get_var" /\ last.err = "" /\ last.val = <<>>
    /\ ChildOf(objs["a"], last.f) = NoChild
    /\ get_size(objs["a"], 1) = 1

-----------------------------------------------------------------------------
(* Fields of a constant size.  One instance of FS over                     *)
(* bytearray([1, 2, 100, 3]): the client assigns byte sequences, lists,    *)
(* numpy arrays and strings of the declared and of other lengths, and      *)
(* calls resize on the fields.                                             *)

FixBytes == <<1, 2, 100, 3>>

\* The strings a client assigns: up to MaxLen characters of 'd' and 'é'.
StrChars == {100, 233}
Strings == UNION {[1..n -> StrChars] : n \in Lengths}

InitFix ==
    /\ classes = ClassTable
    /\ typ = "FS"
    /\ objs = [n \in {"a"} |-> NewStruct(typ, 0)]
    /\ data = [n \in {"a"} |-> FixBytes]
    /\ elem_off = [k \in ArrayKeys |-> 0]
    /\ last = NoCall

\* n.f = np.array([v, ...]) for an ArrayField
SetNdarray(n, i, values) ==
    /\ Ready(n)
    /\ Commit(n, array_setvalue_ndarray(objs[n], data[n], elem_off, i, values),
              Call("set_ndarray", n, 0, i, FALSE))

\* n.f = 'value' for a StringField
SetStr(n, i, value) ==
    /\ Ready(n)
    /\ Commit(n, string_setvalue(objs[n], data[n], elem_off, i, value),
              Call("set_str", n, 0, i, FALSE))

NextFix ==
    \/ \E i \in FieldsOf(typ), len \in Lengths, rb \in BOOLEAN : Resize("a", i, len, rb)
    \/ \E i \in KindIdx(typ, "int"), v \in Vals : SetInt("a", i, v)
    \/ \E i \in KindIdx(typ, "bytes"), v \in ByteSeqs : SetBytes("a", i, v)
    \/ \E i \in KindIdx(typ, "array") : \E v \in Lists(typ, i) : SetArray("a", i, v)
    \/ \E i \in KindIdx(typ, "array") : \E v \in Lists(typ, i) : SetNdarray("a", i, v)
    \/ \E i \in KindIdx(typ, "str"), v \in Strings : SetStr("a", i, v)

SpecFix == InitFix /\ [][NextFix]_vars

-----------------------------------------------------------------------------
(* C17: assigning to a fixed-length byte-range field or to a fixed-shape   *)
(* array field a value whose length or shape differs from the declared one *)
(* fails with an error; after the failure the buffer length, the bytes of  *)
(* the neighbouring fields and the length or shape the field's view        *)
(* reports are unchanged.                                                  *)

\* The call returned or raised as w did.
Outcome(w, o2, d2, err) == w.err = err /\ w.o = o2 /\ w.d = d2

\* The bytes field k of o covers in d.
FieldBytes(o, d, k) == Slice(d, calc_offset(o, k), calc_offset(o, k) + get_size(o, k))

MismatchRejected(o, d, o2, d2, f, err) ==
    /\ err # ""
    /\ Len(d2) = Len(d)
    /\ \A k \in DOMAIN classes[o.type].fields \ {f} :
          FieldBytes(o2, d2, k) = FieldBytes(o, d, k)
    /\ view_shape(o2, f) = view_shape(o, f)

\* The assignments of call.op to field call.f whose value has another
\* length than the declared one.
MismatchIn(o, d, eo, o2, d2, call) ==
    /\ call.op = "set_bytes" =>
          \A v \in ByteSeqs :
             (Len(v) # field(o, call.f).size
              /\ Outcome(bytes_setvalue(o, d, eo, call.f, v), o2, d2, call.err))
             => MismatchRejected(o, d, o2, d2, call.f, call.err)
    /\ call.op = "set_array" =>
          \A v \in Lists(o.type, call.f) :
             (<<Len(v)>> # DeclShape(field(o, call.f))
              /\ Outcome(array_setvalue(o, d, eo, call.f, v), o2, d2, call.err))
             => MismatchRejected(o, d, o2, d2, call.f, call.err)
    /\ call.op = "set_ndarray" =>
          \A v \in Lists(o.type, call.f) :
             (<<Len(v)>> # DeclShape(field(o, call.f))
              /\ Outcome(array_setvalue_ndarray(o, d, eo, call.f, v), o2, d2, call.err))
             => MismatchRejected(o, d, o2, d2, call.f, call.err)

C17_FixedMismatch ==
    [][(last'.op \in {"set_bytes", "set_array", "set_ndarray"}
        /\ ~field(objs[last'.inst], last'.f).is_instance)
       => MismatchIn(objs[last'.inst], data[last'.inst], elem_off,
                     objs'[last'.inst], data'[last'.inst], last')]_vars

-----------------------------------------------------------------------------
(* C18: assigning to a fixed-length string field a string longer or        *)
(* shorter than the declared length succeeds without any resize: a longer  *)
(* string is cut to the declared length, a shorter string overwrites only  *)
(* the first bytes of the field, and len(data) and the offsets of all      *)
(* other fields are unchanged.                                             *)

StringFitted(o, d, o2, d2, f, v, err) ==
    /\ err = ""
    /\ o2 = o
    /\ Len(d2) = Len(d)
    /\ d2 = SliceAssign(d, calc_offset(o, f),
                        calc_offset(o, f) + Min(field(o, f).size, Len(encode(v))),
                        SubSeq(encode(v), 1, Min(field(o, f).size, Len(encode(v)))))

C18_FixedStringFit ==
    [][(last'.op = "set_str" /\ ~field(objs[last'.inst], last'.f).is_instance)
       => \A v \in Strings :
             (Len(v) # field(objs[last'.inst], last'.f).size
              /\ Outcome(string_setvalue(objs[last'.inst], data[last'.inst], elem_off,
                                         last'.f, v),
                         objs'[last'.inst], data'[last'.inst], last'.err))
             => StringFitted(objs[last'.inst], data[last'.inst],
                             objs'[last'.inst], data'[last'.inst], last'.f, v, last'.err)]_vars

-----------------------------------------------------------------------------
(* C20: ByteStruct.resize on a field that is not dynamic (a fixed scalar,  *)
(* a fixed-length string or byte range, a fixed-shape array) fails with an *)
(* error for either value of resize_bytes, and leaves the buffer and every *)
(* per-instance size and shape as they were.                               *)

C20_ResizeFixed ==
    [][(last'.op = "resize" /\ ~field(objs[last'.inst], last'.f).is_instance)
       => (last'.err # "" /\ objs' = objs /\ data' = data)]_vars

\* A physical resize of the fixed-shape array was refused after the byte
\* range before it and the array had been assigned: their instance data
\* hold a size and a shape.
C20_Witness ==
    /\ typ = "FS" /\ last.op = "resize" /\ last.resize_bytes /\ last.err = "Exception"
    /\ field(objs["a"], last.f).kind = "array"
    /\ get_instance_data(objs["a"], 1).size = 1
    /\ get_instance_data(objs["a"], 2).has_shape

-----------------------------------------------------------------------------
(* Fields beyond the end of the buffer.  One instance of OS over           *)
(* bytearray(b'd\x01\x02'), the struct's minimum size, or over             *)
(* bytearray(b'd'): the client resizes the byte range logically, which     *)
(* moves the later fields towards and past the end of the buffer, and      *)
(* reads and writes every field.                                           *)

OobBuffers == {<<100>>, <<100, 1, 2>>}

InitOob ==
    /\ classes = ClassTable
    /\ typ = "OS"
    /\ objs = [n \in {"a"} |-> NewStruct(typ, 0)]
    /\ data \in [{"a"} -> OobBuffers]
    /\ elem_off = [k \in ArrayKeys |-> 0]
    /\ last = NoCall

\* The strings a client assigns, over 'd', and the struct values: T(data)
\* over a buffer of min_size bytes.
OobStrings == UNION {[1..n -> Chars] : n \in Lengths}
OobStructs(t, s) ==
    {StructValue(classes[t].fields[s].st, b) :
        b \in [1..classes[classes[t].fields[s].st].min_size -> Vals]}

\* n.f for a scalar or a string field, n.f.to_bytearray() for a byte range
GetField(n, i) ==
    LET o == objs[n]
        read(r) == W(o, data[n], elem_off, r.err, r.val)
    IN  Commit(n,
               read(CASE field(o, i).kind = "int" ->
                           simple_getvalue(data[n], calc_offset(o, i), field(o, i).size)
                      [] field(o, i).kind = "str" ->
                           string_getvalue(data[n], calc_offset(o, i), get_size(o, i))
                      [] OTHER -> to_bytearray(o, data[n], i)),
               Call("get", n, 0, i, FALSE))

\* n.f[index] = v for a byte range
SetByteItem(n, i, index, v) ==
    /\ Ready(n)
    /\ LET written(r) == W(objs[n], r.d, elem_off, r.err, <<>>)
       IN  Commit(n, written(bytes_setitem(objs[n], data[n], i, index, v)),
                  Call("setitem_bytes", n, 0, i, FALSE))

NextOob ==
    \/ \E i \in KindIdx(typ, "bytes"), len \in Lengths : Resize("a", i, len, FALSE)
    \/ \E i \in FieldsOf(typ) \ KindIdx(typ, "struct") : GetField("a", i)
    \/ \E i \in KindIdx(typ, "int"), v \in Vals : SetInt("a", i, v)
    \/ \E i \in KindIdx(typ, "str"), v \in OobStrings : SetStr("a", i, v)
    \/ \E i \in KindIdx(typ, "bytes"), x \in 0..(MaxLen - 1), v \in Vals :
          SetByteItem("a", i, x, v)
    \/ \E s \in KindIdx(typ, "struct") : \E v \in OobStructs(typ, s) : SetStruct("a", s, v)

SpecOob == InitOob /\ [][NextOob]_vars

-----------------------------------------------------------------------------
(* C19: a field read or write whose absolute offset + current size exceeds *)
(* len(data) fails with a bounds error and leaves the buffer, bytes and    *)
(* length, unchanged; for fixed scalars, fixed and variable strings, byte  *)
(* ranges through their view and nested-struct assignment.                 *)

OutOfBounds(o, d, f) == calc_offset(o, f) + get_size(o, f) > Len(d)

AccessOps == {"get", "set_int", "set_str", "setitem_bytes", "set_struct"}

C19_OutOfBounds ==
    [][(last'.op \in AccessOps
        /\ OutOfBounds(objs[last'.inst], data[last'.inst], last'.f))
       => (last'.err = "IndexError" /\ data' = data)]_vars

-----------------------------------------------------------------------------
(* Fields declared with offset=X.  One instance of RS over                 *)
(* bytearray([1, 2, 3, 4]): d is declared with offset=a and e with         *)
(* offset=d, the field declared immediately before it.  The client resizes *)
(* the byte range and assigns the scalars.                                 *)

RefBytes == <<1, 2, 3, 4>>

InitRef ==
    /\ classes = ClassTable
    /\ typ = "RS"
    /\ objs = [n \in {"a"} |-> NewStruct(typ, 0)]
    /\ data = [n \in {"a"} |-> RefBytes]
    /\ elem_off = [k \in ArrayKeys |-> 0]
    /\ last = NoCall

NextRef ==
    \/ \E i \in KindIdx(typ, "bytes"), len \in Lengths, rb \in BOOLEAN : Resize("a", i, len, rb)
    \/ \E i \in KindIdx(typ, "int"), v \in Vals : SetInt("a", i, v)
    \/ CheckOverflow("a")

SpecRef == InitRef /\ [][NextRef]_vars

-----------------------------------------------------------------------------
(* C21: a field declared with offset=X, a reference to another field X of  *)
(* the same struct, is located immediately after X: its calc_field_offset  *)
(* is calc_field_offset(X) + the current size of X, for every earlier      *)
(* declared field X, not only the one declared immediately before it.      *)

\* The fields of o declared with a reference offset, and the field each
\* refers to.
RefFields(o) == {i \in DOMAIN classes[o.type].fields : Len(field(o, i).off) = 2}
Referred(o, i) == field(o, i).off[2]

C21_FollowsReferredField ==
    \A n \in DOMAIN objs : \A i \in RefFields(objs[n]) :
       calc_field_offset(objs[n], i)
          = calc_field_offset(objs[n], Referred(objs[n], i))
            + get_size(objs[n], Referred(objs[n], i))

-----------------------------------------------------------------------------
(* A fixed-length byte range.  One instance of FB, constructed over        *)
(* bytearray([1, 2, 1]) or with no data; the client reads the view of fb   *)
(* (len, to_bytearray, an index), assigns the field and its bytes, and     *)
(* resizes it.                                                             *)

FixedBuffers == {<<1, 2, 1>>, Zeros(3)}

InitLen ==
    /\ classes = ClassTable
    /\ typ = "FB"
    /\ objs = [n \in {"a"} |-> NewStruct(typ, 0)]
    /\ data \in [{"a"} -> FixedBuffers]
    /\ elem_off = [k \in ArrayKeys |-> 0]
    /\ last = NoCall

\* len(n.f) for a byte range
ByteLen(n, i) ==
    Commit(n, W(objs[n], data[n], elem_off, "", <<bytes_len(objs[n], i)>>),
           Call("len", n, 0, i, FALSE))

\* n.f[index] for a byte range
GetByteItem(n, i, index) ==
    LET read(r) == W(objs[n], data[n], elem_off, r.err, r.val)
    IN  Commit(n, read(bytes_getitem(objs[n], data[n], i, index)),
               Call("getitem_bytes", n, 0, i, FALSE))

NextLen ==
    \/ \E i \in KindIdx(typ, "bytes") : ByteLen("a", i)
    \/ \E i \in KindIdx(typ, "bytes") : GetField("a", i)
    \/ \E i \in KindIdx(typ, "bytes"), x \in 0..(MaxLen - 1) : GetByteItem("a", i, x)
    \/ \E i \in KindIdx(typ, "bytes"), x \in 0..(MaxLen - 1), v \in Vals :
          SetByteItem("a", i, x, v)
    \/ \E i \in KindIdx(typ, "bytes"), v \in ByteSeqs : SetBytes("a", i, v)
    \/ \E i \in KindIdx(typ, "bytes"), len \in Lengths, rb \in BOOLEAN :
          Resize("a", i, len, rb)
    \/ \E i \in KindIdx(typ, "int"), v \in Vals : SetInt("a", i, v)

SpecLen == InitLen /\ [][NextLen]_vars

-----------------------------------------------------------------------------
(* C22: for a byte-range field of declared length L, on every instance,    *)
(* including one constructed from existing bytes and never assigned, the   *)
(* view reports length L, to_bytearray() returns the L bytes at the        *)
(* field's offset, and the indices 0..L-1 are accepted.                    *)

\* The declared length of the fixed-length byte-range field f of o.
DeclaredLength(o, f) == field(o, f).len[1]

\* What the view of the field f of o over the buffer d answers.
ViewAsDeclared(o, d, f) ==
    /\ bytes_len(o, f) = DeclaredLength(o, f)
    /\ to_bytearray(o, d, f)
          = [err |-> "",
             val |-> Slice(d, calc_offset(o, f), calc_offset(o, f) + DeclaredLength(o, f))]
    /\ \A x \in 0..(DeclaredLength(o, f) - 1) : bytes_getitem(o, d, f, x).err = ""

C22_FixedByteRangeView ==
    [][(last'.op \in {"len", "get", "getitem_bytes"}
        /\ field(objs[last'.inst], last'.f).kind = "bytes"
        /\ field(objs[last'.inst], last'.f).len # <<>>)
       => ViewAsDeclared(objs[last'.inst], data[last'.inst], last'.f)]_vars

-----------------------------------------------------------------------------
(* check_overflow on a nested value.  One instance of PS constructed with  *)
(* no data; the client resizes the fields of the struct and of its nested  *)
(* value, logically or physically, and calls check_overflow() on both.     *)

\* n.s.check_overflow(), through the nested value
NestedCheckOverflow(n, s) ==
    CommitNested(n, s, check_overflow(Nested(n, s), data[n], elem_off),
                 Call("check_overflow", n, s, 0, FALSE))

NextChk ==
    \/ \E i \in KindIdx(typ, "bytes"), len \in Lengths, rb \in BOOLEAN : Resize("a", i, len, rb)
    \/ \E s \in KindIdx(typ, "struct") :
          \E i \in FieldsOf(classes[typ].fields[s].st), len \in Lengths, rb \in BOOLEAN :
             NestedResize("a", s, i, len, rb)
    \/ \E s \in KindIdx(typ, "struct") :
          \E i \in KindIdx(classes[typ].fields[s].st, "int"), v \in Vals :
             NestedSetInt("a", s, i, v)
    \/ CheckOverflow("a")
    \/ \E s \in KindIdx(typ, "struct") : NestedCheckOverflow("a", s)

SpecChk == InitNest /\ [][NextChk]_vars

-----------------------------------------------------------------------------
(* C23: for an instance at master_offset m > 0, such as the value of a     *)
(* nested-struct field, check_overflow() fails whenever m + size exceeds   *)
(* the length of the buffer.                                               *)

\* The instance o, bound to the buffer d, ends beyond the buffer.
EndsBeyond(o, d) == o.master_offset + size(o) > Len(d)

C23_NestedOverflow ==
    [][(last'.op = "check_overflow" /\ last'.via # 0
        /\ Nested(last'.inst, last'.via).master_offset > 0
        /\ EndsBeyond(Nested(last'.inst, last'.via), data[last'.inst]))
       => last'.err = "OverflowError"]_vars

-----------------------------------------------------------------------------
(* Construction.  data is the store of byte sequences, keyed by object     *)
(* identity: the caller owns one object, a bytearray or a list of ints, or *)
(* passes no data, and "buf" is the bytearray ByteStruct.__init__          *)
(* allocates.  An instance is named by the object its self.data refers to. *)
(* After construction the client works through the struct and the caller   *)
(* writes to its own object.                                               *)

CallerObjects == {"bytearray", "list"}
CtorTypes == {"BS", "NS"}
CallerBytes == {<<1, 2>>, <<1, 2, 1>>}

\* A constructor that copies every sequence it is given.
init_copying(heap, t, src) ==
    IF src # "None"
    THEN [heap |-> heap @@ ("buf" :> heap[src]), ref |-> "buf"]
    ELSE [heap |-> heap @@ ("buf" :> Zeros(classes[t].min_size)), ref |-> "buf"]

\* ByteStruct.__init__(data=src): the store after the call and the object
\* self.data refers to.
ByteStruct_init(heap, t, src) ==
    IF src # "None"
    THEN IF src = "bytearray"
         THEN [heap |-> heap, ref |-> src]
         ELSE [heap |-> heap @@ ("buf" :> heap[src]), ref |-> "buf"]
    ELSE [heap |-> heap @@ ("buf" :> Zeros(classes[t].min_size)), ref |-> "buf"]

InitCtor ==
    /\ classes = ClassTable
    /\ typ \in CtorTypes
    /\ objs = [n \in {} |-> NoObj]
    /\ data \in UNION {[S -> CallerBytes] : S \in {{}} \cup {{c} : c \in CallerObjects}}
    /\ elem_off = [k \in ArrayKeys |-> 0]
    /\ last = NoCall

\* The object the caller passes to the constructor.
CallerObject == IF DOMAIN data \cap CallerObjects = {} THEN "None"
                ELSE CHOOSE c \in CallerObjects : c \in DOMAIN data

\* s = T(src)
Construct ==
    /\ DOMAIN objs = {}
    /\ LET r == ByteStruct_init(data, typ, CallerObject)
       IN  /\ objs' = [n \in {r.ref} |-> NewStruct(typ, 0)]
           /\ data' = r.heap
    /\ last' = Call("construct", CallerObject, 0, 0, FALSE)
    /\ UNCHANGED <<classes, typ, elem_off>>

\* src[x] = v, by the caller on its own object
CallerWrite(x, v) ==
    /\ DOMAIN objs # {}
    /\ CallerObject # "None"
    /\ x < Len(data[CallerObject])
    /\ data' = [data EXCEPT ![CallerObject][x + 1] = v]
    /\ last' = Call("caller_write", CallerObject, 0, 0, FALSE)
    /\ UNCHANGED <<classes, typ, objs, elem_off>>

NextCtor ==
    \/ Construct
    \/ \E x \in 0..MaxLen, v \in Vals : CallerWrite(x, v)
    \/ \E n \in DOMAIN objs, i \in KindIdx(typ, "bytes"), len \in Lengths, rb \in BOOLEAN :
          Resize(n, i, len, rb)
    \/ \E n \in DOMAIN objs, i \in KindIdx(typ, "int"), v \in Vals : SetInt(n, i, v)
    \/ \E n \in DOMAIN objs, i \in KindIdx(typ, "bytes"), v \in ByteSeqs : SetBytes(n, i, v)
    \/ \E n \in DOMAIN objs, s \in KindIdx(typ, "struct") :
          \E i \in KindIdx(classes[typ].fields[s].st, "int"), v \in Vals :
             NestedSetInt(n, s, i, v)

SpecCtor == InitCtor /\ [][NextCtor]_vars

-----------------------------------------------------------------------------
(* C24: constructing an instance from an existing bytearray uses that same *)
(* buffer, so that writes through the struct are visible in the caller's   *)
(* bytearray and the caller's writes are visible to the struct;            *)
(* constructing from any other byte sequence copies it, so that later      *)
(* writes do not affect the source; constructing with no data yields a     *)
(* zero-filled buffer of exactly min_size bytes.                           *)

\* The buffer the constructed struct works on.
StructBuffer(store, insts) == store[CHOOSE n \in DOMAIN insts : TRUE]

ConstructedAsClaimed ==
    CASE CallerObject = "bytearray" ->
           /\ DOMAIN objs' = {"bytearray"}
           /\ data' = data
      [] CallerObject = "None" ->
           StructBuffer(data', objs') = Zeros(classes[typ].min_size)
      [] OTHER ->
           /\ DOMAIN objs' \cap CallerObjects = {}
           /\ StructBuffer(data', objs') = data[CallerObject]
           /\ data'[CallerObject] = data[CallerObject]

SharedOrCopied ==
    CASE CallerObject = "bytearray" ->
           StructBuffer(data', objs') = data'[CallerObject]
      [] CallerObject = "None" -> TRUE
      [] last'.op = "caller_write" ->
           StructBuffer(data', objs') = StructBuffer(data, objs)
      [] OTHER -> data'[CallerObject] = data[CallerObject]

C24_Construction ==
    [][IF last'.op = "construct" THEN ConstructedAsClaimed ELSE SharedOrCopied]_vars

\* A write through a struct constructed over the caller's bytearray has
\* changed the bytes the caller sees.
C24_Witness ==
    /\ last.op = "set_int" /\ last.err = ""
    /\ DOMAIN objs = {"bytearray"}
    /\ data["bytearray"] \notin CallerBytes

-----------------------------------------------------------------------------
(* Struct types declared with implicit offsets only.  One instance of any  *)
(* of them, constructed with no data; the client resizes its byte ranges,  *)
(* assigns its scalars and calls check_overflow().                         *)

ImplicitTypes == {t \in AllTypes : \A i \in FieldIdx(t) : Fields(t)[i].off = <<>>}

InitMin ==
    /\ classes = ClassTable
    /\ typ \in ImplicitTypes
    /\ objs = [n \in {"a"} |-> NewStruct(typ, 0)]
    /\ data = [n \in {"a"} |-> Zeros(classes[typ].min_size)]
    /\ elem_off = [k \in ArrayKeys |-> 0]
    /\ last = NoCall

NextMin ==
    \/ \E i \in KindIdx(typ, "bytes"), len \in Lengths, rb \in BOOLEAN : Resize("a", i, len, rb)
    \/ \E i \in KindIdx(typ, "int"), v \in Vals : SetInt("a", i, v)
    \/ CheckOverflow("a")

SpecMin == InitMin /\ [][NextMin]_vars

-----------------------------------------------------------------------------
(* C25: the min_size of a struct declared with implicit offsets only is    *)
(* the sum of its fields' static sizes in declaration order, counting      *)
(* every dynamic array, string, byte-range or variable field as 0 and      *)
(* every nested-struct field, wherever it is declared, as the min_size of  *)
(* its inner type.                                                         *)

RECURSIVE SumOfStaticSizes(_)

\* The declared size of a field; 0 for a field declared without one.
StaticSize(fd) ==
    CASE fd.kind = "struct" -> SumOfStaticSizes(fd.st)
      [] fd.kind = "var" -> 0
      [] fd.kind = "array" ->
            IF fd.shape = <<>> THEN 0
            ELSE (IF fd.ekind = "struct" THEN SumOfStaticSizes(fd.st) ELSE fd.elen)
                 * prod(fd.shape)
      [] OTHER -> IF fd.len = <<>> THEN 0 ELSE fd.len[1]

SumOfStaticSizes(t) == SeqSum([i \in FieldIdx(t) |-> StaticSize(Fields(t)[i])])

C25_MinSize ==
    \A t \in ImplicitTypes : classes[t].min_size = SumOfStaticSizes(t)

\* An instance of the type whose last two fields are nested structs, one of
\* them with a nested struct of its own, constructed with no data.
C25_Witness ==
    /\ typ = "TS"
    /\ last.op = "check_overflow" /\ last.err = ""
    /\ Len(data["a"]) = classes[typ].min_size
    /\ classes[typ].min_size = classes["NS"].min_size + classes["Inner"].min_size

-----------------------------------------------------------------------------
(* Concurrent element access.  Two instances a and b of CS, each used by   *)
(* one thread that holds the instance's lock for the whole of its          *)
(* __getitem__ or __setitem__ call.  The locks differ, so the threads      *)
(* interleave: a call runs up to the assignment of                         *)
(* _elem_field.computed_offset (Begin), may be suspended there, and then   *)
(* runs _elem_field._getvalue or _setvalue (Access).  The element          *)
(* descriptor belongs to the ArrayField of the class, so elem_off is       *)
(* shared by both threads.  last.pending holds each thread's call in       *)
(* progress.                                                               *)

Threads == {"a", "b"}

NoPending == [kind |-> "", index |-> <<>>, value |-> <<>>]

ElemIndices == {<<0>>, <<1>>, <<0 - 1>>}

InitConc ==
    /\ classes = ClassTable
    /\ typ = "CS"
    /\ objs = [n \in Threads |-> NewStruct(typ, 0)]
    /\ data = [n \in Threads |-> Zeros(classes[typ].min_size)]
    /\ elem_off = [k \in ArrayKeys |-> 0]
    /\ last = NoCall @@ [val |-> <<>>, pending |-> [n \in Threads |-> NoPending]]

\* ArrayFieldProxy.__getitem__ / __setitem__ on n.f, up to and including
\* the assignment to _elem_field.computed_offset.
Begin(n, i, kind, index, value) ==
    /\ last.pending[n] = NoPending
    /\ LET o1 == with_shape(objs[n], i)
           abs == to_absolute_indices(proxy_shape(objs[n], i), index)
       IN  /\ abs # <<>>
           /\ objs' = [objs EXCEPT ![n] = o1]
           /\ elem_off' = set_elem_offset(o1, elem_off, i, calc_field_offset(o1, i),
                                          proxy_shape(o1, i), abs)
           /\ last' = Call("begin", n, 0, i, FALSE)
                        @@ [val |-> <<>>,
                            pending |-> [last.pending EXCEPT
                                           ![n] = [kind |-> kind, index |-> abs, value |-> value]]]
    /\ UNCHANGED <<classes, typ, data>>

\* The rest of the call of thread n: _elem_field._getvalue(byte_struct) or
\* _elem_field._setvalue(byte_struct, value).
Access(n, i) ==
    /\ last.pending[n] # NoPending
    /\ LET p == last.pending[n]
           w == IF p.kind = "setitem"
                THEN elem_setvalue(objs[n], data[n], elem_off, i, p.value)
                ELSE elem_getvalue(IF field(objs[n], i).ekind = "struct"
                                   THEN elem_reset(objs[n], i) ELSE objs[n],
                                   data[n], elem_off, i)
       IN  /\ objs' = [objs EXCEPT ![n] = w.o]
           /\ data' = [data EXCEPT ![n] = w.d]
           /\ elem_off' = w.eo
           /\ last' = [Call(p.kind, n, 0, i, FALSE) EXCEPT !.err = w.err]
                        @@ [val |-> w.val,
                            pending |-> [last.pending EXCEPT ![n] = NoPending]]
    /\ UNCHANGED <<classes, typ>>

NextConc ==
    \/ \E n \in Threads, i \in KindIdx(typ, "array"), x \in ElemIndices, v \in Vals :
          Begin(n, i, "setitem", x, <<v>>)
    \/ \E n \in Threads, i \in KindIdx(typ, "array"), x \in ElemIndices :
          Begin(n, i, "getitem", x, <<>>)
    \/ \E n \in Threads, i \in KindIdx(typ, "array") : Access(n, i)

SpecConc == InitConc /\ [][NextConc]_vars

-----------------------------------------------------------------------------
(* C26: with one exclusive lock per top-level instance, array element      *)
(* reads and writes that run concurrently on two different instances of    *)
(* the same struct type each access their own instance's element at the    *)
(* requested index: no interleaving makes one access land at an offset     *)
(* computed for the other.                                                 *)

\* The offset in the buffer of element index (absolute) of array field i of o.
OwnElement(o, i, index) ==
    calc_offset(o, i) + get_array_index(proxy_shape(o, i), index) * elem_size(field(o, i))

\* The finished call of thread n read or wrote element p.index of its own
\* instance.
AccessedOwn(n, i, p, es) ==
    IF p.kind = "setitem"
    THEN /\ last'.err = ""
         /\ data'[n] = SliceAssign(data[n], OwnElement(objs[n], i, p.index),
                                   OwnElement(objs[n], i, p.index) + es,
                                   pack(es, p.value[1]))
    ELSE last'.val = <<unpack(Slice(data[n], OwnElement(objs[n], i, p.index),
                                    OwnElement(objs[n], i, p.index) + es))>>

C26_ConcurrentElementAccess ==
    [][last'.op \in {"setitem", "getitem"}
       => AccessedOwn(last'.inst, last'.f, last.pending[last'.inst],
                      elem_size(field(objs[last'.inst], last'.f)))]_vars

-----------------------------------------------------------------------------
(* pack_value and unpack_bytes on stand-alone scalar fields.  A field is   *)
(* what IntegerField.__init__ or BooleanField.__init__ leaves on the       *)
(* descriptor: the struct format (byte-order prefix, size, signedness),    *)
(* offset (<<>> for None) and computed_offset.  host is sys.byteorder,     *)
(* which a format without prefix uses.  The integers of the model are      *)
(* 32-bit, so the values of a 4- or 8-byte field are those below 2^31.     *)

\* Endianness.to_format
to_format(endianness) ==
    CASE endianness = "LITTLE" -> "<"
      [] endianness = "BIG" -> ">"
      [] OTHER -> ""

\* IntegerField.__init__ through SimpleField.__init__ and ByteField.__init__
ScalarField(kind, signed, sz, endianness, offset) ==
    [kind |-> kind, prefix |-> to_format(endianness), signed |-> signed, size |-> sz,
     offset |-> offset, computed_offset |-> IF Len(offset) = 1 THEN offset[1] ELSE 0]

\* BooleanField.__init__
BooleanField(sz, endianness, offset) == ScalarField("bool", FALSE, sz, endianness, offset)

\* The range struct.pack accepts for a format of sz bytes.
format_accepts(signed, sz, v) ==
    IF signed
    THEN sz >= 4 \/ (0 - Pow256(sz) \div 2 <= v /\ v < Pow256(sz) \div 2)
    ELSE v >= 0 /\ (sz >= 4 \/ v < Pow256(sz))

\* The sz low-order bytes of v in two's complement, least significant first.
RECURSIVE low_bytes(_, _)
low_bytes(sz, v) == IF sz = 0 THEN <<>> ELSE <<v % 256>> \o low_bytes(sz - 1, v \div 256)

reversed(b) == [k \in 1..Len(b) |-> b[Len(b) + 1 - k]]

\* The integer whose bytes are b, most significant first.
RECURSIVE from_bytes(_, _)
from_bytes(acc, b) == IF b = <<>> THEN acc ELSE from_bytes(acc * 256 + Head(b), Tail(b))

\* struct.pack(format, v)
struct_pack(f, host, v) ==
    IF ~format_accepts(f.signed, f.size, v) THEN [err |-> "struct.error", val |-> <<>>]
    ELSE [err |-> "",
          val |-> IF (IF f.prefix = "" THEN host ELSE f.prefix) = ">"
                  THEN reversed(low_bytes(f.size, v))
                  ELSE low_bytes(f.size, v)]

\* An unpack that reads every format as unsigned.
struct_unpack_unsigned(f, host, b) ==
    LET msb == IF (IF f.prefix = "" THEN host ELSE f.prefix) = ">" THEN b ELSE reversed(b)
    IN  from_bytes(0, msb)

\* struct.unpack(format, b)[0]
struct_unpack(f, host, b) ==
    LET msb == IF (IF f.prefix = "" THEN host ELSE f.prefix) = ">" THEN b ELSE reversed(b)
    IN  IF f.signed /\ Head(msb) >= 128
        THEN from_bytes(Head(msb) - 256, Tail(msb))
        ELSE from_bytes(0, msb)

\* field._setvalue(ByteStruct(d), value) for a stand-alone scalar field:
\* master_offset is 0 and the field has no instance fields.
scalar_setvalue(d, f, host, value) ==
    LET packed == struct_pack(f, host, IF f.kind = "bool" THEN (IF value THEN 1 ELSE 0)
                                       ELSE value)
    IN  IF f.computed_offset + f.size > Len(d) THEN [err |-> "IndexError", val |-> d]
        ELSE IF packed.err # "" THEN [err |-> packed.err, val |-> d]
        ELSE [err |-> "",
              val |-> SliceAssign(d, f.computed_offset, f.computed_offset + f.size, packed.val)]

\* field._getvalue(ByteStruct(d)) for a stand-alone scalar field.
scalar_getvalue(d, f, host) ==
    LET v == struct_unpack(f, host, Slice(d, f.computed_offset, f.computed_offset + f.size))
    IN  IF f.computed_offset + f.size > Len(d) THEN [err |-> "IndexError", val |-> <<>>]
        ELSE [err |-> "", val |-> <<IF f.kind = "bool" THEN v # 0 ELSE v>>]

\* pack_value(value, field)
pack_value(value, f, host) ==
    scalar_setvalue(Zeros(f.computed_offset + f.size), f, host, value)

\* unpack_bytes(data, field)
unpack_bytes(d, f, host) == scalar_getvalue(d, f, host)

\* The fields and values a client packs.
Endiannesses == {"NATIVE", "LITTLE", "BIG"}
Offsets == {<<>>} \cup {<<k>> : k \in 0..MaxOffset}
ScalarFields ==
    {ScalarField("int", sg, sz, e, off) :
        sg \in BOOLEAN, sz \in {1, 2, 4, 8}, e \in Endiannesses, off \in Offsets}
    \cup {BooleanField(sz, e, off) : sz \in {1, 4}, e \in Endiannesses, off \in Offsets}
Samples == {0, 1, 127, 128, 255, 256, 32767, 32768, 65535, 65536, 2147483647,
            0 - 1, 0 - 128, 0 - 129, 0 - 32768, 0 - 32769, 0 - 2147483647}
ValuesOf(f) == IF f.kind = "bool" THEN BOOLEAN ELSE Samples

\* After pack_value, a field declared with offset None has offset 0.
offset_set(f) == [f EXCEPT !.offset = IF f.offset = <<>> THEN <<0>> ELSE f.offset]

InitPack ==
    /\ classes = ClassTable
    /\ typ = ""
    /\ objs = [n \in {} |-> NoObj]
    /\ data = [n \in {"packed"} |-> <<>>]
    /\ elem_off = [k \in ArrayKeys |-> 0]
    /\ \E f \in ScalarFields, host \in {"<", ">"} : \E v \in ValuesOf(f) :
          last = [op |-> "init", field |-> f, host |-> host, value |-> <<v>>,
                  err |-> "", val |-> <<>>]

\* packed = pack_value(value, field)
PackValue ==
    /\ last.op = "init"
    /\ LET r == pack_value(last.value[1], last.field, last.host)
       IN  /\ data' = [data EXCEPT !["packed"] = r.val]
           /\ last' = [last EXCEPT !.op = "pack_value", !.err = r.err,
                                    !.field = offset_set(last.field)]
    /\ UNCHANGED <<classes, typ, objs, elem_off>>

\* unpack_bytes(packed, field)
UnpackBytes ==
    /\ last.op = "pack_value" /\ last.err = ""
    /\ LET r == unpack_bytes(data["packed"], last.field, last.host)
       IN  last' = [last EXCEPT !.op = "unpack_bytes", !.err = r.err, !.val = r.val]
    /\ UNCHANGED <<classes, typ, objs, data, elem_off>>

NextPack == PackValue \/ UnpackBytes

SpecPack == InitPack /\ [][NextPack]_vars

-----------------------------------------------------------------------------
(* C27: for an integer or boolean scalar field of width 1, 2, 4 or 8,      *)
(* signed or unsigned, of any endianness and any integer offset,           *)
(* pack_value(v, f) returns exactly offset zero bytes followed by the      *)
(* size-byte encoding of v, and unpack_bytes(pack_value(v, f), f) == v.    *)

\* The value v is one the field f can hold.
Representable(f, v) == f.kind = "bool" \/ format_accepts(f.signed, f.size, v)

\* b is `offset` zero bytes followed by sz bytes.
ZerosThenEncoding(b, offset, sz) ==
    /\ Len(b) = offset + sz
    /\ \A k \in 1..offset : b[k] = 0

C27_PackRoundTrip ==
    (last.op # "init" /\ Representable(last.field, last.value[1]))
    => /\ last.err = ""
       /\ ZerosThenEncoding(data["packed"], last.field.offset[1], last.field.size)
       /\ last.op = "unpack_bytes" => last.val = last.value

\* A negative value of a signed big-endian field at a positive offset was
\* packed and read back.
C27_Witness ==
    /\ last.op = "unpack_bytes"
    /\ last.field.kind = "int" /\ last.field.signed /\ last.field.prefix = ">"
    /\ last.field.size = 2 /\ last.field.offset = <<2>>
    /\ last.value = <<0 - 129>>
    /\ data["packed"] = <<0, 0, 255, 127>>

-----------------------------------------------------------------------------
(* Element views of an array of structs.  One instance a of WS over        *)
(* bytearray([1, 0, 2, 0]).  The client keeps e = a.els[x]: objs["e"] is   *)
(* that object, last.origin the index it was read at, and last.cached      *)
(* tells whether it is the object the element descriptor's data['inner']   *)
(* refers to.  The client then reads and assigns other elements, assigning *)
(* either a new Elem value or e itself, and reads and writes e.e.          *)

ElemBytes == <<1, 0, 2, 0>>

InitElem ==
    /\ classes = ClassTable
    /\ typ = "WS"
    /\ objs = [n \in {"a", "e"} |-> IF n = "a" THEN NewStruct(typ, 0) ELSE NoObj]
    /\ data = [n \in {"a"} |-> ElemBytes]
    /\ elem_off = [k \in ArrayKeys |-> 0]
    /\ last = NoCall @@ [val |-> <<>>, value |-> <<>>, origin |-> 0, cached |-> FALSE]

\* The state after a call on a.f returned or raised w; e is the object the
\* client keeps after the call.
ElemCommit(w, e, call, more) ==
    /\ objs' = [objs EXCEPT !["a"] = w.o, !["e"] = e]
    /\ data' = [data EXCEPT !["a"] = w.d]
    /\ elem_off' = w.eo
    /\ last' = [call EXCEPT !.err = w.err] @@ more
    /\ UNCHANGED <<classes, typ>>

\* The kept object after _elem_field.reset and _elem_field._getvalue ran on
\* o: _getvalue re-binds the object data['inner'] refers to, if any.
kept_after_get(o, i, eo, e, cached) ==
    IF cached /\ get_instance_data(elem_reset(o, i), i).einner # NoObj
    THEN [e EXCEPT !.master_offset = elem_calc_offset(o, eo, <<o.type, i>>)]
    ELSE e

\* e = a.f[x]
ObtainElem(i, x) ==
    LET w == array_getitem(objs["a"], data["a"], elem_off, i, <<x>>)
    IN  /\ w.err = ""
        /\ ElemCommit(w, get_instance_data(w.o, i).einner, Call("getitem", "a", 0, i, FALSE),
                      [val |-> w.val, value |-> <<>>, origin |-> x, cached |-> TRUE])

\* a.f[j], read while e is kept
ReadOther(i, j) ==
    LET w == array_getitem(objs["a"], data["a"], elem_off, i, <<j>>)
    IN  /\ objs["e"] # NoObj /\ j # last.origin
        /\ ElemCommit(w, kept_after_get(objs["a"], i, w.eo, objs["e"], last.cached),
                      Call("getitem_other", "a", 0, i, FALSE),
                      [val |-> w.val, value |-> <<>>, origin |-> last.origin,
                       cached |-> last.cached
                                  /\ get_instance_data(elem_reset(objs["a"], i), i).einner # NoObj])

\* a.f[j] = Elem(...), a new struct value, while e is kept
WriteOther(i, j, value) ==
    LET w == array_setitem(objs["a"], data["a"], elem_off, i, <<j>>, value)
    IN  /\ Ready("a") /\ objs["e"] # NoObj /\ j # last.origin
        /\ ElemCommit(w, objs["e"], Call("setitem_other", "a", 0, i, FALSE),
                      [val |-> <<>>, value |-> <<>>, origin |-> last.origin, cached |-> FALSE])

\* a.f[j] = e: the value is the kept object, whose data is a's buffer;
\* data['inner'] becomes e, which _setvalue then re-binds.
WriteKept(i, j) ==
    LET w == array_setitem(objs["a"], data["a"], elem_off, i, <<j>>,
                           [o |-> objs["e"], d |-> data["a"]])
    IN  /\ Ready("a") /\ objs["e"] # NoObj /\ j # last.origin
        /\ ElemCommit(w, IF w.err = "" THEN get_instance_data(w.o, i).einner ELSE objs["e"],
                      Call("setitem_other", "a", 0, i, FALSE),
                      [val |-> <<>>, value |-> <<>>, origin |-> last.origin,
                       cached |-> IF w.err = "" THEN TRUE ELSE last.cached])

\* e.g, read through the kept object
ViewGet(k) ==
    LET r == simple_getvalue(data["a"], calc_offset(objs["e"], k), field(objs["e"], k).size)
    IN  /\ objs["e"] # NoObj
        /\ ElemCommit(W(objs["a"], data["a"], elem_off, r.err, r.val), objs["e"],
                      Call("view_get", "e", 0, k, FALSE),
                      [val |-> r.val, value |-> <<>>, origin |-> last.origin,
                       cached |-> last.cached])

\* e.g = v, written through the kept object
ViewSet(k, v) ==
    LET r == simple_setvalue(data["a"], calc_offset(objs["e"], k), field(objs["e"], k).size, v)
    IN  /\ objs["e"] # NoObj
        /\ ElemCommit(W(objs["a"], r.d, elem_off, r.err, <<>>), objs["e"],
                      Call("view_set", "e", 0, k, FALSE),
                      [val |-> <<>>, value |-> <<v>>, origin |-> last.origin,
                       cached |-> last.cached])

NextElem ==
    \/ \E i \in KindIdx(typ, "array"), x \in 0..1 : ObtainElem(i, x)
    \/ \E i \in KindIdx(typ, "array"), j \in 0..1 : ReadOther(i, j)
    \/ \E i \in KindIdx(typ, "array"), j \in 0..1 : \E v \in ElemValues(typ, i) :
          WriteOther(i, j, v)
    \/ \E i \in KindIdx(typ, "array"), j \in 0..1 : WriteKept(i, j)
    \/ \E k \in KindIdx("Elem", "int") : ViewGet(k)
    \/ \E k \in KindIdx("Elem", "int"), v \in Vals : ViewSet(k, v)

SpecElem == InitElem /\ [][NextElem]_vars

-----------------------------------------------------------------------------
(* C28: elements obtained by indexing an array of structs are independent  *)
(* views: after e = arr[i], followed by further index reads and writes at  *)
(* indices j # i and no resize, reads and writes through e still address   *)
(* the bytes of element i.                                                 *)

\* The read or write through e that last' records addressed the sz bytes at
\* offset off of the buffer.
AddressedAt(off, sz) ==
    IF last'.op = "view_set"
    THEN /\ last'.err = ""
         /\ data'["a"] = SliceAssign(data["a"], off, off + sz, pack(sz, last'.value[1]))
    ELSE last'.val = <<unpack(Slice(data["a"], off, off + sz))>>

C28_ElementViews ==
    [][last'.op \in {"view_get", "view_set"}
       => AddressedAt(OwnElement(objs["a"], 1, <<last.origin>>)
                      + classes["Elem"].fields[last'.f].computed_offset,
                      classes["Elem"].fields[last'.f].size)]_vars

-----------------------------------------------------------------------------
(* Physical operations only.  One instance of a struct type, constructed   *)
(* with no data; the client assigns fields and array elements and resizes  *)
(* fields of the struct and of its nested value with resize_bytes=True,    *)
(* never logically only.                                                   *)

NextPhys ==
    \/ \E i \in FieldsOf(typ), len \in Lengths : Resize("a", i, len, TRUE)
    \/ \E i \in KindIdx(typ, "int"), v \in Vals : SetInt("a", i, v)
    \/ \E i \in KindIdx(typ, "bytes"), v \in ByteSeqs : SetBytes("a", i, v)
    \/ \E i \in KindIdx(typ, "array") : \E v \in Lists(typ, i) : SetArray("a", i, v)
    \/ \E i \in KindIdx(typ, "array"), x \in Indices :
          \E v \in ElemValues(typ, i) : SetItem("a", i, x, v)
    \/ \E s \in KindIdx(typ, "struct") :
          \E i \in FieldsOf(classes[typ].fields[s].st), len \in Lengths :
             NestedResize("a", s, i, len, TRUE)
    \/ \E s \in KindIdx(typ, "struct") :
          \E i \in KindIdx(classes[typ].fields[s].st, "int"), v \in Vals :
             NestedSetInt("a", s, i, v)
    \/ \E s \in KindIdx(typ, "struct") :
          \E i \in KindIdx(classes[typ].fields[s].st, "bytes"), v \in ByteSeqs :
             NestedSetBytes("a", s, i, v)

SpecPhys == Init /\ [][NextPhys]_vars

-----------------------------------------------------------------------------
(* C29: the physical size tracks the logical size.  From a struct          *)
(* constructed with no data, after any sequence of field assignments and   *)
(* resize(..., resize_bytes=True), with no logical-only resize,            *)
(* len(data) equals the logical size in every reachable state, so that     *)
(* check_overflow() never fails and no surplus bytes accumulate.           *)

C29_PhysicalTracksLogical ==
    \A n \in DOMAIN objs : Len(data[n]) = size(objs[n])

-----------------------------------------------------------------------------
(* C30: assigning to a variable-length byte-range field a sequence whose   *)
(* length equals the field's current nonzero length succeeds and           *)
(* overwrites the field's bytes in place.                                  *)

\* v has the current, nonzero length of the variable-length byte range f of o.
SameLength(o, f, v) ==
    /\ field(o, f).is_instance
    /\ Len(v) = get_instance_data(o, f).size
    /\ Len(v) > 0

\* The assignment returned, and the buffer is d with the field's bytes
\* replaced by v.
OverwrittenInPlace(o, d, f, v) ==
    /\ last'.err = ""
    /\ data'[last'.inst] = SliceAssign(d, calc_offset(o, f), calc_offset(o, f) + Len(v), v)
    /\ get_instance_data(objs'[last'.inst], f).size = Len(v)

C30_SameLengthAssignment ==
    [][(last'.op = "set_bytes" /\ last'.via = 0)
       => \A v \in ByteSeqs :
             (/\ SameLength(objs[last'.inst], last'.f, v)
              /\ Outcome(bytes_setvalue(objs[last'.inst], data[last'.inst], elem_off,
                                        last'.f, v),
                         objs'[last'.inst], data'[last'.inst], last'.err))
             => OverwrittenInPlace(objs[last'.inst], data[last'.inst], last'.f, v)]_vars

====
